---- MODULE Spec2Model ----
(***************************************************************************)
(* Model of rbl_pipe_houdini: HDA parm menus (menu/nodemenu.py,            *)
(* shotgun/sgmenu.py), the scene context resolver (shotgun/context.py),    *)
(* the cascading Shotgun menus of a node (shotgun/node.py), the output     *)
(* path update of the publish and file cache nodes, the pyblish plugin     *)
(* pipelines and the per-node instance cache.                              *)
(***************************************************************************)
EXTENDS Integers, Sequences, FiniteSets, TLC

VARIABLES
    m_parm,      \* value of the hou.Parm bound to the menu (a string)
    m_menu,      \* HoudiniHDAMenu.menu: flat list name, label, name, label, ...
    m_value,     \* HoudiniHDAMenu.value
    m_editable,  \* node.isEditableInsideLockedHDA()
    m_ovr,       \* the override_<parm> parm: "absent", "off" (0) or "on" (1)
    m_ctx,       \* sg_context.parm_value_from_context(parm name)
    m_auto,      \* sg_context.legacy_auto_mode()
    m_call,      \* record of the last generate_menu call
    m_got,       \* record of the last __init__, get_selection or set_value call
    src,         \* the context sources: custom task id parms, globals node, hip path
    farm,        \* farm.running_on_farm()
    n_ovr,       \* the override_<menu> parms of the node: "absent", "off" or "on"
    c_res,       \* the last context call and what it returned
    n_parm,      \* the menu parms of the node, by menu name
    n_menu,      \* SGMenu.menu of each menu of the node
    n_value,     \* SGMenu.value of each menu of the node
    n_editable,  \* current_node.isEditableInsideLockedHDA()
    n_latest,    \* the latest parm of the node: "absent", "off" or "on"
    n_log,       \* the menus regenerated by the last cascade, in order
    n_op,        \* the last cascade call: its method, force flag and outcome
    n_edits,     \* how many times the user has changed the node or the scene
    o_class,     \* the class of a node with an output path
    o_node,      \* its missing_template, output_version, output_path, output_root
    o_env,       \* what update_output_path reads: project templates, task, versions
    o_call,      \* the last update_output_path or usd_publish call
    p_nodes,     \* the nodes handed to a publish or validation run
    p_reg,       \* the plugins registered for the run, in registration order
    p_todo,      \* the plugins still to be processed, in processing order
    p_inst,      \* the collected instances: families and failure, by name
    p_trace,     \* the plugins processed so far: plugin, instances run, instances failed
    s_init,      \* cachedUserData("sg_init") of each host node
    s_node,      \* cachedUserData("sg_node") of each host node
    s_made,      \* the instances constructed so far for each host node
    s_stack,     \* the calls that are inside a constructor, innermost last
    s_ret,       \* what the last get_shotgun_node call returned
    h_item,      \* a validator plugin and the node it is handed
    h_call       \* the last process or auto_fix call on that node

menuVars == <<m_parm, m_menu, m_value, m_editable, m_ovr, m_ctx, m_auto, m_call, m_got>>
ctxVars == <<src, farm, n_ovr, c_res>>

nodeVars == <<n_parm, n_menu, n_value, n_editable, n_latest, n_log, n_op, n_edits>>

outVars == <<o_class, o_node, o_env, o_call>>
pubVars == <<p_nodes, p_reg, p_todo, p_inst, p_trace>>
singVars == <<s_init, s_node, s_made, s_stack, s_ret>>
hookVars == <<h_item, h_call>>

vars == <<menuVars, ctxVars, nodeVars, outVars, pubVars, singVars, hookVars>>

otherThanMenu == <<ctxVars, nodeVars, outVars, pubVars, singVars, hookVars>>
otherThanCtx == <<menuVars, nodeVars, outVars, pubVars, singVars, hookVars>>
otherThanNode == <<menuVars, farm, c_res, outVars, pubVars, singVars, hookVars>>
otherThanOut == <<menuVars, ctxVars, nodeVars, pubVars, singVars, hookVars>>
otherThanPub == <<menuVars, farm, c_res, nodeVars, outVars, singVars, hookVars>>
otherThanSing == <<menuVars, ctxVars, nodeVars, outVars, pubVars, hookVars>>
otherThanHook == <<menuVars, ctxVars, nodeVars, outVars, pubVars, singVars>>

----------------------------------------------------------------------------
(* Bounds *)

\* longest record list handed to generate_menu
MaxLen == 2
\* largest id that occurs as the name field of a record
MaxKey == 3

----------------------------------------------------------------------------
(* Python values.  None, ints and strings share one record shape so that   *)
(* any two values can be compared.                                         *)

None == [t |-> "none", i |-> 0, s |-> ""]
PyNum(n) == [t |-> "int", i |-> n, s |-> ""]
PyS(x) == [t |-> "str", i |-> 0, s |-> x]

\* bool(v)
Truthy(v) ==
    CASE v.t = "none" -> FALSE
      [] v.t = "int" -> v.i # 0
      [] OTHER -> v.s # ""

\* str(v), as a TLA+ string
PyStr(v) ==
    CASE v.t = "none" -> "None"
      [] v.t = "int" -> ToString(v.i)
      [] OTHER -> v.s

\* the strings int() accepts and the number each one denotes
Numerals == {ToString(n) : n \in 0..(MaxKey + 2)}
IntOfString(x) == CHOOSE n \in 0..(MaxKey + 2) : ToString(n) = x

\* int(v) raises TypeError on None and ValueError on a non-numeric string
IntRaises(v) ==
    CASE v.t = "none" -> TRUE
      [] v.t = "int" -> FALSE
      [] OTHER -> v.s \notin Numerals

PyInt(v) == IF v.t = "int" THEN v.i ELSE IntOfString(v.s)

----------------------------------------------------------------------------
(* The state right after construction, per group of variables *)

\* the menus of a ShotgunNode, in the order __init__ inserts them
AssetChain == <<"template", "asset_type", "asset", "step", "task", "version">>
ShotChain == <<"template", "sequence", "shot", "shot_step", "shot_task", "version">>
MenuNames == {AssetChain[i] : i \in 1..Len(AssetChain)}
                 \cup {ShotChain[i] : i \in 1..Len(ShotChain)}

NoSources ==
    [custom_exists |-> TRUE,   \* the node has the custom task id parms
     custom_on |-> FALSE,      \* evalParm("override_custom_taskid")
     custom_val |-> "",        \* evalParm("custom_taskid")
     g_cached |-> FALSE,       \* self.globals_node, looked up in __init__
     g_live |-> FALSE,         \* a globals node is in the scene now
     g_context |-> "other",    \* the globals node's context parm
     g_task |-> None,          \* the task the globals node's parms name in SG
     hip |-> None]             \* sg_template.task_id_from_path(hip path)

Idle == [op |-> "none", raised |-> FALSE, val |-> None]

CtxStart ==
    /\ src = NoSources
    /\ farm = FALSE
    /\ n_ovr = [m \in MenuNames |-> "off"]
    /\ c_res = Idle

NoOp == [name |-> "none", force |-> FALSE, raised |-> FALSE, val |-> None]

\* the members of a fresh ShotgunNode before __init__ refreshes the menus
BlankNode ==
    [parm |-> [m \in MenuNames |-> ""],
     menu |-> [m \in MenuNames |-> <<>>],
     value |-> [m \in MenuNames |-> None],
     log |-> <<>>,
     raised |-> FALSE]

NodeStart ==
    /\ n_parm = BlankNode.parm
    /\ n_menu = BlankNode.menu
    /\ n_value = BlankNode.value
    /\ n_editable = TRUE
    /\ n_latest = "on"
    /\ n_log = <<>>
    /\ n_op = NoOp
    /\ n_edits = 0

\* the members ShotgunNode.__init__ sets before it refreshes the menus
FreshOutput ==
    [missing |-> FALSE, version |-> None, path |-> None, root |-> None,
     fields |-> None]

NoOutputCall ==
    [op |-> "none", sg |-> TRUE, before |-> FreshOutput, queried |-> FALSE,
     raised |-> FALSE, published |-> <<>>]

\* the host nodes of a scene
Hosts == {"a", "b"}

NoReturn == [called |-> FALSE, host |-> "a", raised |-> FALSE, val |-> 0]

NoCall == [called |-> FALSE, force |-> FALSE, selection |-> None, names |-> <<>>,
           editable |-> TRUE, raised |-> FALSE]

NoGot == [op |-> "none", force |-> FALSE, arg |-> "", before |-> "",
          val |-> None, raised |-> FALSE]

\* a single menu that no call has touched
MenuStart ==
    /\ m_parm = "" /\ m_menu = <<>> /\ m_value = None /\ m_editable = TRUE
    /\ m_ovr = "off" /\ m_ctx = None /\ m_auto = FALSE
    /\ m_call = NoCall
    /\ m_got = NoGot

\* no node with an output path in play
OutStart ==
    /\ o_class = "none"
    /\ o_node = FreshOutput
    /\ o_env = [has_template |-> TRUE, found |-> TRUE, mode_ok |-> TRUE,
                task |-> None, next |-> 1, farm |-> FALSE]
    /\ o_call = NoOutputCall

\* no publish under way
PubStart ==
    p_nodes = {} /\ p_reg = <<>> /\ p_todo = <<>> /\ p_inst = {} /\ p_trace = <<>>

\* no host node has an instance cached
SingStart ==
    /\ s_init = [h \in Hosts |-> FALSE]
    /\ s_node = [h \in Hosts |-> 0]
    /\ s_made = [h \in Hosts |-> 0]
    /\ s_stack = <<>>
    /\ s_ret = NoReturn

NoHookCall == [op |-> "none", hook |-> "none", skipped |-> FALSE, error |-> "none"]

\* a simple validator on a node without hooks, before any call
HookStart ==
    /\ h_item = [plugin |-> "SimpleNodeValidator", validate |-> "inherited",
                 auto_fix |-> "inherited", pyblish_validate |-> "absent",
                 pyblish_fix |-> "absent"]
    /\ h_call = NoHookCall

----------------------------------------------------------------------------
(* menu/nodemenu.py and shotgun/sgmenu.py *)

\* menu[::2]
RECURSIVE MenuKeys(_)
MenuKeys(menu) ==
    IF Len(menu) < 2 THEN <<>>
    ELSE <<menu[1]>> \o MenuKeys(SubSeq(menu, 3, Len(menu)))

SeqToSet(s) == {s[i] : i \in 1..Len(s)}

RECURSIVE Reversed(_)
Reversed(s) == IF s = <<>> THEN <<>> ELSE Reversed(Tail(s)) \o <<Head(s)>>

RECURSIVE FilterByName(_, _)
FilterByName(data, selection) ==
    IF data = <<>> THEN <<>>
    ELSE (IF PyStr(Head(data).name) = selection THEN <<Head(data)>> ELSE <<>>)
         \o FilterByName(Tail(data), selection)

RECURSIVE BuildMenu(_)
BuildMenu(data) ==
    IF data = <<>> THEN <<>>
    ELSE <<PyStr(Head(data).name), PyStr(Head(data).label)>> \o BuildMenu(Tail(data))

\* get_selection taking the placeholder for a selection
GetSelection_placeholder_kept(parm, menu) ==
    IF parm # "" THEN PyS(parm)
    ELSE IF menu # <<>> THEN PyS(menu[1])
    ELSE None

\* HoudiniHDAMenu.get_selection on an existing parm
GetSelection(parm, menu) ==
    IF parm # "" /\ parm # "None" THEN PyS(parm)
    ELSE IF menu # <<>> THEN PyS(menu[1])
    ELSE None

\* is_overriden not reading the override parm
IsOverriden_flag_unread(ovr, auto) == ovr = "absent" /\ ~auto

\* SGMenu.is_overriden
IsOverriden(ovr, auto) ==
    IF ovr # "absent" THEN ovr = "on"
    ELSE IF auto THEN FALSE
    ELSE TRUE

\* SGMenu.get_selection
SGGetSelection(ctxv, ovr, auto, force, parm, menu) ==
    IF force /\ Truthy(ctxv) THEN PyS(PyStr(ctxv))
    ELSE IF ~IsOverriden(ovr, auto) /\ Truthy(ctxv) THEN PyS(PyStr(ctxv))
    ELSE GetSelection(parm, menu)

\* HoudiniHDAMenu.set_value: the parm is written only on an editable node
SetValue(st, v, editable) ==
    [st EXCEPT !.value = PyS(v), !.parm = IF editable THEN v ELSE @]

\* HoudiniHDAMenu.generate_menu on the menu state st = [parm, menu, value];
\* selection is the result of get_selection(force=force).  The result carries
\* raised = TRUE when data_dicts[0] fails on an empty list.
GenerateMenu(st, selection, data, reverse, editable) ==
    LET raises == ~editable /\ ~Truthy(selection) /\ data = <<>>
        kept == IF editable THEN data
                ELSE IF Truthy(selection) THEN FilterByName(data, selection.s)
                ELSE IF data = <<>> THEN <<>>
                ELSE <<data[1]>>
        ordered == IF reverse THEN Reversed(kept) ELSE kept
        menu == BuildMenu(ordered)
        st1 == [st EXCEPT !.menu = menu]
        st2 == IF selection.t = "str" /\ selection.s \in SeqToSet(MenuKeys(menu))
               THEN SetValue(st1, selection.s, editable)
               ELSE IF menu # <<>> THEN SetValue(st1, menu[1], editable)
               ELSE st1
    IN  IF raises THEN [st |-> st, raised |-> TRUE]
        ELSE [st |-> st2, raised |-> FALSE]

----------------------------------------------------------------------------
(* One menu on one node: the inputs of generate_menu are drawn from all     *)
(* record lists of at most MaxLen records with distinct names.             *)

\* values the name field of a record holds: the ids of the tracking service
NameValues == {PyNum(n) : n \in 1..MaxKey}

LabelOf(v) == IF v.t = "int" THEN PyS("L" \o ToString(v.i)) ELSE None

Records == {[name |-> v, label |-> LabelOf(v)] : v \in NameValues}

RecordLists ==
    {s \in UNION {[1..n -> Records] : n \in 0..MaxLen} :
        \A i, j \in 1..Len(s) : i # j => s[i].name # s[j].name}

ParmValues == {""} \cup {PyStr(v) : v \in NameValues}
\* the context yields nothing, an id the records can hold, or an id that no
\* record holds
CtxValues == {None, PyNum(1), PyNum(MaxKey + 1)}

RECURSIVE NamesOf(_)
NamesOf(data) ==
    IF data = <<>> THEN <<>> ELSE <<PyStr(Head(data).name)>> \o NamesOf(Tail(data))

MenuInit ==
    /\ CtxStart
    /\ NodeStart
    /\ OutStart /\ PubStart /\ SingStart /\ HookStart
    /\ m_parm = ""
    /\ m_menu = <<>>
    /\ m_value = None
    /\ m_editable = TRUE
    /\ m_ovr \in {"absent", "off", "on"}
    /\ m_ctx = None
    /\ m_auto \in (IF m_ovr = "absent" THEN BOOLEAN ELSE {FALSE})
    /\ m_call = NoCall
    /\ m_got = NoGot

\* SGMenu.generate_menu(data_dicts, name, label, reverse, force)
generate_menu ==
    \E data \in RecordLists, reverse \in BOOLEAN, force \in BOOLEAN :
        LET selection == SGGetSelection(m_ctx, m_ovr, m_auto, force, m_parm, m_menu)
            r == GenerateMenu([parm |-> m_parm, menu |-> m_menu, value |-> m_value],
                              selection, data, reverse, m_editable)
        IN  /\ m_parm' = r.st.parm
            /\ m_menu' = r.st.menu
            /\ m_value' = r.st.value
            /\ m_call' = [called |-> TRUE, force |-> force, selection |-> selection,
                          names |-> NamesOf(data), editable |-> m_editable,
                          raised |-> r.raised]
            /\ m_got' = NoGot
            /\ UNCHANGED <<m_editable, m_ovr, m_ctx, m_auto>>
            /\ UNCHANGED otherThanMenu

\* the calls on record have returned when the user or the scene acts
Returned == m_call' = NoCall /\ m_got' = NoGot

\* the user picks an entry of the drop-down, or the parm is cleared or
\* reverted to a default of "None"
user_sets_parm ==
    /\ m_editable
    /\ \E v \in SeqToSet(MenuKeys(m_menu)) \cup {"", "None"} : m_parm' = v
    /\ Returned
    /\ UNCHANGED <<m_menu, m_value, m_editable, m_ovr, m_ctx, m_auto>>
    /\ UNCHANGED otherThanMenu

\* the node is locked or unlocked (isEditableInsideLockedHDA changes)
set_editable ==
    /\ m_editable' \in BOOLEAN \ {m_editable}
    /\ Returned
    /\ UNCHANGED <<m_parm, m_menu, m_value, m_ovr, m_ctx, m_auto>>
    /\ UNCHANGED otherThanMenu

\* the override toggle of the menu is switched
toggle_override ==
    /\ m_ovr # "absent"
    /\ m_editable
    /\ m_ovr' = IF m_ovr = "on" THEN "off" ELSE "on"
    /\ Returned
    /\ UNCHANGED <<m_parm, m_menu, m_value, m_editable, m_ctx, m_auto>>
    /\ UNCHANGED otherThanMenu

\* the scene context changes (other hip file, globals node, custom task id)
context_changes ==
    /\ m_ctx' \in CtxValues \ {m_ctx}
    /\ Returned
    /\ UNCHANGED <<m_parm, m_menu, m_value, m_editable, m_ovr, m_auto>>
    /\ UNCHANGED otherThanMenu

\* HoudiniHDAMenu.get_selection()
call_get_selection ==
    /\ m_got' = [NoGot EXCEPT !.op = "get_selection",
                              !.val = GetSelection(m_parm, m_menu)]
    /\ m_call' = NoCall
    /\ UNCHANGED <<m_parm, m_menu, m_value, m_editable, m_ovr, m_ctx, m_auto>>
    /\ UNCHANGED otherThanMenu

\* SGMenu.get_selection(force)
call_sg_get_selection ==
    \E force \in BOOLEAN :
        /\ m_got' = [NoGot EXCEPT !.op = "sg_get_selection", !.force = force,
                                  !.val = SGGetSelection(m_ctx, m_ovr, m_auto, force,
                                                         m_parm, m_menu)]
        /\ m_call' = NoCall
        /\ UNCHANGED <<m_parm, m_menu, m_value, m_editable, m_ovr, m_ctx, m_auto>>
        /\ UNCHANGED otherThanMenu

\* HoudiniHDAMenu.set_value(value) with the key of a record
call_set_value ==
    \E v \in ParmValues \ {""} :
        LET st == SetValue([parm |-> m_parm, menu |-> m_menu, value |-> m_value],
                           v, m_editable)
        IN  /\ m_parm' = st.parm
            /\ m_value' = st.value
            /\ m_got' = [NoGot EXCEPT !.op = "set_value", !.arg = v, !.before = m_parm]
            /\ m_call' = NoCall
            /\ UNCHANGED <<m_menu, m_editable, m_ovr, m_ctx, m_auto>>
            /\ UNCHANGED otherThanMenu

\* SGMenu(sg_context, parm) is constructed anew on node.parm(name), which is
\* None when the node has no parm of that name; HoudiniHDAMenu.__init__ calls
\* parm.node() on it.  Without a menu object get_selection has nothing to run
\* on, so its branch for a parm that is not there is never taken.
construct_menu ==
    \E exists \in BOOLEAN :
        /\ IF exists
           THEN /\ m_menu' = <<>> /\ m_value' = None
                /\ m_got' = [NoGot EXCEPT !.op = "__init__", !.arg = "parm"]
           ELSE /\ UNCHANGED <<m_menu, m_value>>
                /\ m_got' = [NoGot EXCEPT !.op = "__init__", !.arg = "None",
                                          !.raised = TRUE]
        /\ m_call' = NoCall
        /\ UNCHANGED <<m_parm, m_editable, m_ovr, m_ctx, m_auto>>
        /\ UNCHANGED otherThanMenu

MenuNext ==
    \/ generate_menu
    \/ call_get_selection
    \/ call_sg_get_selection
    \/ call_set_value
    \/ construct_menu
    \/ user_sets_parm
    \/ set_editable
    \/ toggle_override
    \/ context_changes

SpecMenu == MenuInit /\ [][MenuNext]_vars

----------------------------------------------------------------------------
(* Claims about one menu *)

\* the selection the menu holds: HoudiniHDAMenu.value, as a string ("" when
\* it holds nothing)
HeldSelection == IF Truthy(m_value) THEN PyStr(m_value) ELSE ""

\* C1: after generate_menu the menu's selection is the previous selection when
\* that key is among the new entry keys, otherwise the key of the first new
\* entry, and it is empty when there are no new entries.
C1_SelectionPolicy ==
    (m_call.called /\ ~m_call.raised) =>
        LET keys == MenuKeys(m_menu)
            sel == m_call.selection
        IN  IF sel.t = "str" /\ sel.s \in SeqToSet(keys) THEN HeldSelection = sel.s
            ELSE IF keys # <<>> THEN HeldSelection = keys[1]
            ELSE HeldSelection = ""

\* C2: on a non-editable node generate_menu with more than one input record
\* yields exactly one entry: the current selection when it is among the input
\* names, the first input record otherwise.
C2_NonEditableSingleEntry ==
    (m_call.called /\ ~m_call.editable /\ Len(m_call.names) > 1) =>
        /\ ~m_call.raised
        /\ Len(m_menu) = 2
        /\ m_menu[1] = IF m_call.selection.t = "str"
                          /\ m_call.selection.s \in SeqToSet(m_call.names)
                       THEN m_call.selection.s
                       ELSE m_call.names[1]

\* the key of the first entry of the menu, None when it has no entries
FirstKey == IF MenuKeys(m_menu) = <<>> THEN None ELSE PyS(MenuKeys(m_menu)[1])

\* C13: get_selection returns the parm's value when that is neither empty nor
\* "None", otherwise the key of the first menu entry, and None only when the
\* menu has no entries.
C13_GetSelection ==
    m_got.op = "get_selection" =>
        /\ ~m_got.raised
        /\ m_got.val = IF m_parm \notin {"", "None"} THEN PyS(m_parm) ELSE FirstKey
        /\ m_got.val = None => m_menu = <<>>

\* get_selection has fallen back to the first entry of a menu whose parm holds
\* the placeholder
C13_Witness ==
    /\ m_got.op = "get_selection"
    /\ m_parm = "None"
    /\ Len(m_menu) = 4
    /\ m_got.val = PyS(m_menu[1])

\* C14: set_value(v) stores v as the menu's value; on an editable node the
\* parm holds v afterwards; on a node that is not editable the parm is left as
\* it was and get_selection still returns v.
C14_SetValue ==
    m_got.op = "set_value" =>
        /\ m_value = PyS(m_got.arg)
        /\ m_editable => m_parm = m_got.arg
        /\ ~m_editable =>
               /\ m_parm = m_got.before
               /\ GetSelection(m_parm, m_menu) = PyS(m_got.arg)

\* C15: constructing a menu on a parm that does not exist does not raise.
C15_MissingParmRecovered ==
    (m_got.op = "__init__" /\ m_got.arg = "None") => ~m_got.raised

\* the selection the menu has of its own: its parm, or its first entry
OwnSelection == IF m_parm \notin {"", "None"} THEN PyS(m_parm) ELSE FirstKey

\* C19: a generate_menu call without force on a menu whose override parm is
\* on works from the menu's own selection whatever the context yields, and
\* keeps it when its key is among the new entries.
C19_OverrideFreeze ==
    [][(m_call'.called /\ ~m_call'.force /\ m_ovr = "on") =>
           /\ m_call'.selection = OwnSelection
           /\ (OwnSelection.t = "str" /\ OwnSelection.s \in SeqToSet(MenuKeys(m_menu'))) =>
                  /\ m_value' = OwnSelection
                  /\ m_editable => m_parm' = OwnSelection.s
                  /\ ~m_editable => m_parm' = m_parm]_vars

\* an overridden menu has been regenerated without force in a context that
\* yields another key, itself among the entries
C19_Witness ==
    /\ m_call.called /\ ~m_call.force /\ ~m_call.raised
    /\ m_ovr = "on"
    /\ m_ctx = PyNum(1)
    /\ "1" \in SeqToSet(MenuKeys(m_menu))
    /\ m_value = PyS("2")

----------------------------------------------------------------------------
(* shotgun/context.py: the context resolver *)

\* task ids the tracking service knows (sg_load.valid_task_id): 1 and 2 are
\* asset tasks, 3 is a shot task; 4 is an id no task has
AssetTaskIds == {1, 2}
ShotTaskIds == {3}
ValidTaskIds == AssetTaskIds \cup ShotTaskIds

\* sg_load.valid_task_id
valid_task_id(v) == v.t = "int" /\ v.i \in ValidTaskIds

\* A call either returns a value or raises.
Ret(v) == [raised |-> FALSE, val |-> v]
Raise == [raised |-> TRUE, val |-> None]

\* HoudiniSGContext.task_id_from_custom: evalParm raises hou.OperationFailed
\* (caught) when the parm is missing; int() raises ValueError (not caught).
task_id_from_custom(sc) ==
    IF ~sc.custom_exists THEN Ret(None)
    ELSE IF ~sc.custom_on THEN Ret(None)
    ELSE IF IntRaises(PyS(sc.custom_val)) THEN Raise
    ELSE Ret(PyNum(PyInt(PyS(sc.custom_val))))

\* HoudiniSGContext.task_id_from_globals: get_globals_node() looks the node up
\* again; the parms are read from the node cached in __init__; asset_id or
\* shot_id is unbound when task_id_from_name is called.
task_id_from_globals(sc) ==
    IF ~sc.g_live THEN Ret(None)
    ELSE IF ~sc.g_cached THEN Raise
    ELSE IF sc.g_context \in {"asset", "shot"} THEN Raise
    ELSE Ret(None)

\* HoudiniSGContext.task_id_from_hip
task_id_from_hip(sc) == Ret(sc.hip)

\* HoudiniSGContext.raw_task_id
raw_task_id(sc) ==
    LET custom == task_id_from_custom(sc)
    IN  IF custom.raised THEN Raise
        ELSE IF Truthy(custom.val) THEN custom
        ELSE IF sc.g_cached THEN task_id_from_globals(sc)
        ELSE task_id_from_hip(sc)

\* ShotgunNode.context_message: the three sources are read first; the message
\* is given without the task id or path it ends in
context_message(sc) ==
    LET custom == task_id_from_custom(sc)
        globals == task_id_from_globals(sc)
        hip == task_id_from_hip(sc)
    IN  IF custom.raised \/ globals.raised \/ hip.raised THEN Raise
        ELSE IF custom.val # None
        THEN IF valid_task_id(custom.val) THEN Ret(PyS("Context from custom task ID"))
             ELSE Ret(PyS("No context could be loaded."))
        ELSE IF globals.val # None
        THEN IF valid_task_id(globals.val) THEN Ret(PyS("Context from scene globals"))
             ELSE Ret(PyS("No context could be loaded."))
        ELSE IF hip.val # None /\ valid_task_id(hip.val)
        THEN Ret(PyS("Context from scene path"))
        ELSE Ret(PyS("No context could be loaded."))

\* ShotgunNode.parm_overriden
parm_overriden(ovr, name) == ovr[name] = "on"

\* ShotgunNode.context_overriden
context_overriden(ovr) == \E name \in MenuNames : parm_overriden(ovr, name)

\* invalid_context without the farm shortcut
invalid_context_farm_unchecked(sc, onFarm, ovr) ==
    LET task == raw_task_id(sc)
    IN  IF task.raised THEN Raise
        ELSE Ret(~valid_task_id(task.val) /\ ~context_overriden(ovr))

\* ShotgunNode.invalid_context
invalid_context(sc, onFarm, ovr) ==
    IF onFarm THEN Ret(FALSE)
    ELSE LET task == raw_task_id(sc)
         IN  IF task.raised THEN Raise
             ELSE Ret(~valid_task_id(task.val) /\ ~context_overriden(ovr))

\* most override toggles that are on at once in the context specification
MaxOverrides == 1

CustomValues == {"", "0", "1", "4", "x"}
GlobalsTasks == {None, PyNum(1)}
HipTasks == {None, PyNum(2), PyNum(4)}

\* The node is constructed in a scene that may hold a globals node and is
\* saved under any path; the custom override starts switched off.
CtxInit ==
    /\ MenuStart
    /\ \E live \in BOOLEAN, c \in {"asset", "shot", "other"}, t \in GlobalsTasks,
          h \in HipTasks :
          src = [NoSources EXCEPT !.g_cached = live, !.g_live = live,
                                  !.g_context = IF live THEN c ELSE "other",
                                  !.g_task = IF live THEN t ELSE None,
                                  !.hip = h]
    /\ farm \in BOOLEAN
    /\ n_ovr = [m \in MenuNames |-> "off"]
    /\ c_res = Idle
    /\ NodeStart
    /\ OutStart /\ PubStart /\ SingStart /\ HookStart

\* the user edits the custom task id parms
set_custom ==
    /\ \E on \in BOOLEAN, v \in CustomValues :
          src' = [src EXCEPT !.custom_on = on, !.custom_val = v]
    /\ c_res' = Idle
    /\ UNCHANGED <<farm, n_ovr>>
    /\ UNCHANGED otherThanCtx

\* a globals node is created in or deleted from the scene, or its parms are
\* edited; g_cached keeps what __init__ saw
set_globals ==
    /\ \E live \in BOOLEAN, c \in {"asset", "shot", "other"}, t \in GlobalsTasks :
          src' = [src EXCEPT !.g_live = live, !.g_context = c, !.g_task = t]
    /\ c_res' = Idle
    /\ UNCHANGED <<farm, n_ovr>>
    /\ UNCHANGED otherThanCtx

\* the ShotgunNode is constructed anew: HoudiniSGContext.__init__ caches the
\* globals node
new_context ==
    /\ src' = [src EXCEPT !.g_cached = src.g_live]
    /\ c_res' = Idle
    /\ UNCHANGED <<farm, n_ovr>>
    /\ UNCHANGED otherThanCtx

\* the scene is saved under another path
set_hip ==
    /\ \E h \in HipTasks : src' = [src EXCEPT !.hip = h]
    /\ c_res' = Idle
    /\ UNCHANGED <<farm, n_ovr>>
    /\ UNCHANGED otherThanCtx

\* the session runs on the farm or on a workstation
set_farm ==
    /\ farm' \in BOOLEAN \ {farm}
    /\ c_res' = Idle
    /\ UNCHANGED <<src, n_ovr>>
    /\ UNCHANGED otherThanCtx

\* the user switches one override_<menu> toggle
set_override ==
    /\ \E name \in MenuNames :
          /\ n_ovr[name] # "absent"
          /\ n_ovr' = [n_ovr EXCEPT ![name] = IF @ = "on" THEN "off" ELSE "on"]
    /\ Cardinality({name \in MenuNames : n_ovr'[name] = "on"}) <= MaxOverrides
    /\ c_res' = Idle
    /\ UNCHANGED <<src, farm>>
    /\ UNCHANGED otherThanCtx

call_raw_task_id ==
    /\ c_res' = [op |-> "raw_task_id"] @@ raw_task_id(src)
    /\ UNCHANGED <<src, farm, n_ovr>>
    /\ UNCHANGED otherThanCtx

call_invalid_context ==
    /\ LET r == invalid_context(src, farm, n_ovr)
       IN  c_res' = [op |-> "invalid_context", raised |-> r.raised,
                     val |-> IF r.raised THEN None
                             ELSE IF r.val THEN PyS("True") ELSE PyS("False")]
    /\ UNCHANGED <<src, farm, n_ovr>>
    /\ UNCHANGED otherThanCtx

call_task_id_from_globals ==
    /\ c_res' = [op |-> "task_id_from_globals"] @@ task_id_from_globals(src)
    /\ UNCHANGED <<src, farm, n_ovr>>
    /\ UNCHANGED otherThanCtx

\* the node's context label is evaluated
call_context_message ==
    /\ c_res' = [op |-> "context_message"] @@ context_message(src)
    /\ UNCHANGED <<src, farm, n_ovr>>
    /\ UNCHANGED otherThanCtx

CtxNext ==
    \/ call_raw_task_id
    \/ call_context_message
    \/ call_task_id_from_globals
    \/ call_invalid_context
    \/ set_farm
    \/ set_override
    \/ set_hip
    \/ set_globals
    \/ new_context
    \/ set_custom

SpecContext == CtxInit /\ [][CtxNext]_vars

----------------------------------------------------------------------------
(* Claims about the context resolver *)

\* What each source resolves to: the custom id when the override is on and the
\* value is a number other than 0, the task the globals node names when such a
\* node is in the scene, the task of the hip path.
CustomResolved(sc) ==
    IF sc.custom_exists /\ sc.custom_on /\ sc.custom_val \in Numerals
       /\ IntOfString(sc.custom_val) # 0
    THEN PyNum(IntOfString(sc.custom_val))
    ELSE None

GlobalsResolved(sc) ==
    IF sc.g_live /\ sc.g_context \in {"asset", "shot"} THEN sc.g_task ELSE None

HipResolved(sc) == sc.hip

FirstResolved(sc) ==
    IF Truthy(CustomResolved(sc)) THEN CustomResolved(sc)
    ELSE IF Truthy(GlobalsResolved(sc)) THEN GlobalsResolved(sc)
    ELSE HipResolved(sc)

NoneValid(sc) ==
    /\ ~valid_task_id(CustomResolved(sc))
    /\ ~valid_task_id(GlobalsResolved(sc))
    /\ ~valid_task_id(HipResolved(sc))

\* the source whose value raw_task_id returns
RawSource(sc) ==
    IF Truthy(task_id_from_custom(sc).val) THEN "Context from custom task ID"
    ELSE IF sc.g_cached THEN "Context from scene globals"
    ELSE "Context from scene path"

\* C30: whenever raw_task_id returns, context_message returns a message; the
\* message is "No context could be loaded." exactly when raw_task_id yields no
\* valid task id, and otherwise names the source whose value raw_task_id
\* returns.
C30_MessageAgreesWithResolver ==
    (c_res.op = "context_message" /\ ~raw_task_id(src).raised) =>
        /\ ~c_res.raised
        /\ (c_res.val = PyS("No context could be loaded."))
               <=> ~valid_task_id(raw_task_id(src).val)
        /\ valid_task_id(raw_task_id(src).val) => c_res.val = PyS(RawSource(src))

\* C3: raw_task_id returns the task id of the first source, in the order
\* custom override, scene globals, hip path, that resolves to a non-empty id;
\* a source that resolves to nothing is skipped.
C3_Precedence ==
    c_res.op = "raw_task_id" =>
        /\ ~c_res.raised
        /\ c_res.val = FirstResolved(src)

\* C4 as stated: when no source resolves to a valid task id, invalid_context()
\* returns True.
C4_NoneResolvesInvalid ==
    (c_res.op = "invalid_context" /\ NoneValid(src)) =>
        /\ ~c_res.raised
        /\ c_res.val = PyS("True")

\* the cases in which raw_task_id raises: a custom value int() rejects, or the
\* globals branch taken with context asset or shot, or with a globals node
\* that appeared after the context object was built
RawTaskIdRaises(sc) ==
    \/ sc.custom_exists /\ sc.custom_on /\ sc.custom_val \notin Numerals
    \/ /\ ~Truthy(CustomResolved(sc))
       /\ sc.g_cached
       /\ sc.g_live
       /\ sc.g_context \in {"asset", "shot"}

\* C4 amended: when no source resolves to a valid task id, invalid_context()
\* returns False on the farm; off the farm it raises when raw_task_id raises,
\* and otherwise returns True exactly when no menu override is set.
C4_InvalidUnlessFarmOrOverride ==
    (c_res.op = "invalid_context" /\ NoneValid(src)) =>
        IF farm THEN ~c_res.raised /\ c_res.val = PyS("False")
        ELSE IF RawTaskIdRaises(src) THEN c_res.raised
        ELSE /\ ~c_res.raised
             /\ c_res.val = IF \E name \in MenuNames : n_ovr[name] = "on"
                             THEN PyS("False") ELSE PyS("True")

\* no source resolves, workstation session, no override: the context is invalid
C4_Witness ==
    /\ c_res.op = "invalid_context"
    /\ NoneValid(src)
    /\ ~farm
    /\ src.hip = PyNum(4)
    /\ c_res.val = PyS("True")

\* C21: task_id_from_globals returns a task id or None and does not raise,
\* whatever the state of the globals node.
C21_GlobalsLookupNeverRaises ==
    c_res.op = "task_id_from_globals" => ~c_res.raised

\* C16: with the custom override switched on and a value int() rejects,
\* raw_task_id does not raise and returns what the next source resolves to.
C16_CustomParseSwallowed ==
    (c_res.op = "raw_task_id" /\ src.custom_exists /\ src.custom_on
         /\ src.custom_val \notin Numerals) =>
        /\ ~c_res.raised
        /\ c_res.val = IF src.g_cached THEN GlobalsResolved(src) ELSE HipResolved(src)

----------------------------------------------------------------------------
(* The tracking service (rbl_pipe_sg.load.ShotgunLoad) as the node sees it:  *)
(* two asset types with one asset each, asset 1 with two steps of which     *)
(* only the first has a task, one sequence with one shot.                   *)

Rec(n, l) == [name |-> n, label |-> l]

\* sg_load.get_asset_types()
get_asset_types == <<Rec(PyS("char"), PyS("char")), Rec(PyS("prop"), PyS("prop"))>>

\* sg_load.get_assets(asset_type=...)
get_assets(asset_type) ==
    CASE asset_type = "char" -> <<Rec(PyNum(1), PyS("A1"))>>
      [] asset_type = "prop" -> <<Rec(PyNum(2), PyS("A2"))>>
      [] OTHER -> <<>>

\* sg_load.get_asset_steps(asset=...)
get_asset_steps(asset) ==
    CASE asset = 1 -> <<Rec(PyNum(1), PyS("model")), Rec(PyNum(2), PyS("rig"))>>
      [] asset = 2 -> <<Rec(PyNum(1), PyS("model"))>>
      [] OTHER -> <<>>

\* sg_load.get_asset_tasks(asset=..., step=...)
get_asset_tasks(asset, step) ==
    CASE asset = 1 /\ step = 1 -> <<Rec(PyNum(1), PyS("T1"))>>
      [] asset = 2 /\ step = 1 -> <<Rec(PyNum(2), PyS("T2"))>>
      [] OTHER -> <<>>

\* sg_load.get_sequences()
get_sequences == <<Rec(PyS("sq1"), PyS("sq1"))>>

\* sg_load.get_shots(sequence=...)
get_shots(sequence) ==
    IF sequence = "sq1" THEN <<Rec(PyNum(1), PyS("sh1"))>> ELSE <<>>

\* sg_load.get_shot_steps(shot=...)
get_shot_steps(shot) ==
    IF shot = 1 THEN <<Rec(PyNum(1), PyS("anim"))>> ELSE <<>>

\* sg_load.get_shot_tasks(shot=..., step=...)
get_shot_tasks(shot, step) ==
    IF shot = 1 /\ step = 1 THEN <<Rec(PyNum(3), PyS("T3"))>> ELSE <<>>

\* sg_load.get_versions(task, published_file_type=...)
get_versions(task) ==
    CASE task = 1 -> <<Rec(PyNum(1), PyNum(1)), Rec(PyNum(2), PyNum(2))>>
      [] task = 3 -> <<Rec(PyNum(1), PyNum(1))>>
      [] OTHER -> <<>>

\* hm().asset_template and hm().shot_template of the node type
asset_templates == <<"assetT">>
shot_templates == <<"shotT">>

\* ShotgunNode.__load_templates
load_templates ==
    <<Rec(PyS("assetT"), PyS("Asset (assetT)")), Rec(PyS("shotT"), PyS("Shot (shotT)"))>>

\* HoudiniSGContext.parm_value_from_context(name), given what raw_task_id()
\* returns: template, asset_type, asset, step, task, sequence, shot, shot_step
\* and shot_task are methods of the context, version is not
CtxValue(name, task) ==
    LET asset_ctx == task.t = "int" /\ task.i \in AssetTaskIds
        shot_ctx == task.t = "int" /\ task.i \in ShotTaskIds
    IN  CASE name = "template" ->
               IF asset_ctx THEN PyS(asset_templates[1])
               ELSE IF shot_ctx THEN PyS(shot_templates[1])
               ELSE None
          [] name = "task" -> IF asset_ctx THEN task ELSE None
          [] name = "asset" -> IF asset_ctx THEN PyNum(task.i) ELSE None
          [] name = "asset_type" ->
               IF ~asset_ctx THEN None
               ELSE IF task.i = 1 THEN PyS("char") ELSE PyS("prop")
          [] name = "step" -> IF asset_ctx THEN PyNum(1) ELSE None
          [] name = "shot_task" -> IF shot_ctx THEN task ELSE None
          [] name = "shot" -> IF shot_ctx THEN PyNum(1) ELSE None
          [] name = "sequence" -> IF shot_ctx THEN PyS("sq1") ELSE None
          [] name = "shot_step" -> IF shot_ctx THEN PyNum(1) ELSE None
          [] OTHER -> None

----------------------------------------------------------------------------
(* shotgun/node.py: the cascading menus.  A cascade threads the node state  *)
(* ns = [parm, menu, value, log, raised] through the update methods; env    *)
(* e = [ovr, editable, latest, task] is what the cascade reads and leaves   *)
(* alone.  Once a step has raised, the rest of the cascade is skipped.      *)

\* ShotgunNode.get_parm_menu_value / get_menu(name).get_selection()
Sel(ns, e, name) ==
    SGGetSelection(CtxValue(name, e.task), e.ovr[name], FALSE, FALSE,
                   ns.parm[name], ns.menu[name])

\* get_menu(name).generate_menu(data, ..., reverse, force), logged with the
\* filter the records were fetched with, the force flag and the selection
\* get_selection(force=force) returned
Regenerate(ns, e, name, data, filter, reverse, force) ==
    IF ns.raised THEN ns
    ELSE LET sel == SGGetSelection(CtxValue(name, e.task), e.ovr[name], FALSE, force,
                                   ns.parm[name], ns.menu[name])
             r == GenerateMenu([parm |-> ns.parm[name], menu |-> ns.menu[name],
                                value |-> ns.value[name]],
                               sel, data, reverse, e.editable)
         IN  IF r.raised THEN [ns EXCEPT !.raised = TRUE]
             ELSE [ns EXCEPT !.parm[name] = r.st.parm,
                             !.menu[name] = r.st.menu,
                             !.value[name] = r.st.value,
                             !.log = Append(@, [menu |-> name, filter |-> filter,
                                                force |-> force, selection |-> sel])]

\* ShotgunNode.in_asset_mode / in_shot_mode
in_asset_mode(ns, e) ==
    LET t == Sel(ns, e, "template")
    IN  t.t = "str" /\ t.s \in SeqToSet(asset_templates)

in_shot_mode(ns, e) ==
    LET t == Sel(ns, e, "template")
    IN  t.t = "str" /\ t.s \in SeqToSet(shot_templates)

\* ShotgunNode.menus_updated
menus_updated(ns) ==
    IF ns.raised THEN ns
    ELSE [ns EXCEPT !.log = Append(@, [menu |-> "menus_updated", filter |-> <<>>,
                                       force |-> FALSE, selection |-> None])]

\* ShotgunNode.update_version_menu
update_version_menu(ns, e, force) ==
    IF ns.raised THEN ns
    ELSE IF e.latest # "absent" /\ (force \/ e.latest = "off")
    THEN LET task == IF in_asset_mode(ns, e) THEN Sel(ns, e, "task")
                     ELSE Sel(ns, e, "shot_task")
         IN  IF ~in_asset_mode(ns, e) /\ ~in_shot_mode(ns, e)
             THEN [ns EXCEPT !.raised = TRUE]
             ELSE IF IntRaises(task) THEN [ns EXCEPT !.raised = TRUE]
             ELSE menus_updated(Regenerate(ns, e, "version", get_versions(PyInt(task)),
                                           <<task>>, TRUE, force))
    ELSE menus_updated(ns)

\* a task menu whose update goes back to the step menu
update_task_menu_back_to_step(ns, e, force) ==
    IF ns.raised THEN ns
    ELSE LET asset == Sel(ns, e, "asset")
             step == Sel(ns, e, "step")
             bad == \/ Truthy(asset) /\ IntRaises(asset)
                    \/ Truthy(step) /\ IntRaises(step)
             tasks == IF Truthy(asset) /\ Truthy(step)
                      THEN get_asset_tasks(PyInt(asset), PyInt(step))
                      ELSE <<>>
             steps == IF Truthy(asset) THEN get_asset_steps(PyInt(asset)) ELSE <<>>
         IN  IF bad THEN [ns EXCEPT !.raised = TRUE]
             ELSE update_version_menu(
                      Regenerate(
                          Regenerate(ns, e, "task", tasks, <<asset, step>>, FALSE, force),
                          e, "step", steps, <<asset>>, FALSE, force),
                      e, FALSE)

\* ShotgunNode.update_task_menu
update_task_menu(ns, e, force) ==
    IF ns.raised THEN ns
    ELSE LET asset == Sel(ns, e, "asset")
             step == Sel(ns, e, "step")
             bad == \/ Truthy(asset) /\ IntRaises(asset)
                    \/ Truthy(step) /\ IntRaises(step)
             tasks == IF Truthy(asset) /\ Truthy(step)
                      THEN get_asset_tasks(PyInt(asset), PyInt(step))
                      ELSE <<>>
         IN  IF bad THEN [ns EXCEPT !.raised = TRUE]
             ELSE update_version_menu(
                      Regenerate(ns, e, "task", tasks, <<asset, step>>, FALSE, force),
                      e, FALSE)

\* a cascade that passes over the step menu
update_step_menu_passed_over(ns, e, force) == update_task_menu(ns, e, force)

\* ShotgunNode.update_step_menu
update_step_menu(ns, e, force) ==
    IF ns.raised THEN ns
    ELSE LET asset == Sel(ns, e, "asset")
             steps == IF Truthy(asset) THEN get_asset_steps(PyInt(asset)) ELSE <<>>
         IN  IF Truthy(asset) /\ IntRaises(asset) THEN [ns EXCEPT !.raised = TRUE]
             ELSE update_task_menu(
                      Regenerate(ns, e, "step", steps, <<asset>>, FALSE, force),
                      e, force)

\* ShotgunNode.update_asset_menu
update_asset_menu(ns, e, force) ==
    IF ns.raised THEN ns
    ELSE LET asset_type == Sel(ns, e, "asset_type")
             assets == IF Truthy(asset_type) THEN get_assets(asset_type.s) ELSE <<>>
         IN  update_step_menu(
                 Regenerate(ns, e, "asset", assets, <<asset_type>>, FALSE, force),
                 e, force)

\* ShotgunNode.update_asset_types_menu
update_asset_types_menu(ns, e, force) ==
    update_asset_menu(
        Regenerate(ns, e, "asset_type", get_asset_types, <<>>, FALSE, force),
        e, force)

\* ShotgunNode.update_shot_task_menu
update_shot_task_menu(ns, e, force) ==
    IF ns.raised THEN ns
    ELSE LET shot == Sel(ns, e, "shot")
             step == Sel(ns, e, "shot_step")
             both == Truthy(shot) /\ Truthy(step)
             tasks == IF both THEN get_shot_tasks(PyInt(shot), PyInt(step)) ELSE <<>>
         IN  IF both /\ (IntRaises(shot) \/ IntRaises(step))
             THEN [ns EXCEPT !.raised = TRUE]
             ELSE update_version_menu(
                      Regenerate(ns, e, "shot_task", tasks, <<shot, step>>, FALSE, force),
                      e, FALSE)

\* ShotgunNode.update_shot_step_menu
update_shot_step_menu(ns, e, force) ==
    IF ns.raised THEN ns
    ELSE LET shot == Sel(ns, e, "shot")
             steps == IF Truthy(shot) THEN get_shot_steps(PyInt(shot)) ELSE <<>>
         IN  IF Truthy(shot) /\ IntRaises(shot) THEN [ns EXCEPT !.raised = TRUE]
             ELSE update_shot_task_menu(
                      Regenerate(ns, e, "shot_step", steps, <<shot>>, FALSE, force),
                      e, force)

\* ShotgunNode.update_shot_menu
update_shot_menu(ns, e, force) ==
    IF ns.raised THEN ns
    ELSE LET sequence == Sel(ns, e, "sequence")
             shots == IF Truthy(sequence) THEN get_shots(sequence.s) ELSE <<>>
         IN  update_shot_step_menu(
                 Regenerate(ns, e, "shot", shots, <<sequence>>, FALSE, force),
                 e, force)

\* ShotgunNode.update_sequence_menu
update_sequence_menu(ns, e, force) ==
    update_shot_menu(
        Regenerate(ns, e, "sequence", get_sequences, <<>>, FALSE, force),
        e, force)

\* ShotgunNode.update_templates_menu
update_templates_menu(ns, e, force) ==
    Regenerate(ns, e, "template", load_templates, <<>>, FALSE, force)

\* ShotgunNode.update_all_menus: the node has the asset and the shot parms
update_all_menus(ns, e, force) ==
    update_sequence_menu(
        update_asset_types_menu(update_templates_menu(ns, e, force), e, force),
        e, force)

\* ShotgunNode.get_version: the version parm is read when the node has a
\* latest parm that is off
get_version(ns, e) ==
    IF e.latest = "off"
    THEN IF ns.parm["version"] # "" THEN PyS(ns.parm["version"]) ELSE PyS("")
    ELSE PyS("latest")

\* ShotgunNode.selected_task
selected_task(ns, e) ==
    IF in_asset_mode(ns, e) THEN Ret(Sel(ns, e, "task"))
    ELSE IF in_shot_mode(ns, e) THEN Ret(Sel(ns, e, "shot_task"))
    ELSE Raise

\* ShotgunUSDPublishNode.auto_generate_shot_usd: val is the shot id handed to
\* publish_shot_usd, None when it is not called
auto_generate_shot_usd(ns, e) ==
    LET task == selected_task(ns, e)
    IN  IF task.raised \/ IntRaises(task.val) THEN Raise
        ELSE IF ~in_shot_mode(ns, e) THEN Raise
        ELSE Ret(None)

----------------------------------------------------------------------------
(* A ShotgunNode with both chains, a version menu and a "latest" toggle,     *)
(* driven by its parm callbacks and by the user.                              *)

\* how many changes the user makes to the node and the scene
MaxEdits == 2

\* the task ids a hip path can resolve to
SceneTasks == {None, PyNum(1), PyNum(2), PyNum(3)}

\* what the cascade reads and does not write
Env ==
    [ovr |-> n_ovr, editable |-> n_editable, latest |-> n_latest,
     task |-> LET r == raw_task_id(src) IN IF r.raised THEN None ELSE r.val]

NodeState ==
    [parm |-> n_parm, menu |-> n_menu, value |-> n_value, log |-> <<>>,
     raised |-> FALSE]

\* the node takes over the result of a call; an exception leaves the members
\* written so far in place
Becomes(ns, name, force) ==
    /\ n_parm' = ns.parm
    /\ n_menu' = ns.menu
    /\ n_value' = ns.value
    /\ n_log' = ns.log
    /\ n_op' = [name |-> name, force |-> force, raised |-> ns.raised, val |-> None]

\* the update method behind each menu's callback
UpdateMenu(name, ns, e, force) ==
    CASE name = "template" -> update_templates_menu(ns, e, force)
      [] name = "asset_type" -> update_asset_types_menu(ns, e, force)
      [] name = "asset" -> update_asset_menu(ns, e, force)
      [] name = "step" -> update_step_menu(ns, e, force)
      [] name = "task" -> update_task_menu(ns, e, force)
      [] name = "sequence" -> update_sequence_menu(ns, e, force)
      [] name = "shot" -> update_shot_menu(ns, e, force)
      [] name = "shot_step" -> update_shot_step_menu(ns, e, force)
      [] name = "shot_task" -> update_shot_task_menu(ns, e, force)
      [] OTHER -> update_version_menu(ns, e, force)

\* a change made by the user, between two calls
Edited ==
    /\ n_op = NoOp
    /\ n_edits < MaxEdits
    /\ n_edits' = n_edits + 1
    /\ UNCHANGED <<n_op, n_log>>

\* ShotgunNode.__init__ on a node whose parms are still empty
CascadeInit ==
    /\ MenuStart
    /\ farm = FALSE /\ c_res = Idle
    /\ OutStart /\ PubStart /\ SingStart /\ HookStart
    /\ \E hip \in SceneTasks : src = [NoSources EXCEPT !.hip = hip]
    /\ n_ovr = [m \in MenuNames |-> "off"]
    /\ n_editable \in BOOLEAN   \* the node sits in a locked asset, or not
    /\ n_latest \in {"absent", "off", "on"}
    /\ LET ns == update_all_menus(BlankNode, Env, FALSE)
       IN  /\ ~ns.raised
           /\ n_parm = ns.parm /\ n_menu = ns.menu /\ n_value = ns.value
           /\ n_log = ns.log
           /\ n_op = [name |-> "__init__", force |-> FALSE, raised |-> FALSE,
                       val |-> None]
    /\ n_edits = 0

call_update_all_menus ==
    \E force \in BOOLEAN :
        /\ n_op = NoOp
        /\ Becomes(update_all_menus(NodeState, Env, force), "update_all_menus", force)
        /\ UNCHANGED <<src, n_ovr, n_editable, n_latest, n_edits>>
        /\ UNCHANGED otherThanNode

call_update_menu ==
    \E name \in MenuNames, force \in BOOLEAN :
        /\ n_op = NoOp
        /\ Becomes(UpdateMenu(name, NodeState, Env, force), name, force)
        /\ UNCHANGED <<src, n_ovr, n_editable, n_latest, n_edits>>
        /\ UNCHANGED otherThanNode

\* the output path is built from get_version()
call_get_version ==
    /\ n_op = NoOp
    /\ n_op' = [name |-> "get_version", force |-> FALSE, raised |-> FALSE,
                val |-> get_version(NodeState, Env)]
    /\ UNCHANGED <<n_parm, n_menu, n_value, n_log, src, n_ovr, n_editable, n_latest,
                   n_edits>>
    /\ UNCHANGED otherThanNode

\* RunPublishShotUSD.process
call_auto_generate_shot_usd ==
    /\ n_op = NoOp
    /\ LET r == auto_generate_shot_usd(NodeState, Env)
       IN  n_op' = [name |-> "auto_generate_shot_usd", force |-> FALSE,
                    raised |-> r.raised, val |-> r.val]
    /\ UNCHANGED <<n_parm, n_menu, n_value, n_log, src, n_ovr, n_editable, n_latest,
                   n_edits>>
    /\ UNCHANGED otherThanNode

\* the user picks an entry of a menu on an editable node
pick_menu_entry ==
    \E name \in MenuNames :
        /\ n_editable
        /\ \E key \in SeqToSet(MenuKeys(n_menu[name])) :
               n_parm' = [n_parm EXCEPT ![name] = key]
        /\ Edited
        /\ UNCHANGED <<n_menu, n_value, src, n_ovr, n_editable, n_latest>>
        /\ UNCHANGED otherThanNode

\* the user switches an override_<menu> toggle
switch_override ==
    \E name \in MenuNames :
        /\ n_ovr' = [n_ovr EXCEPT ![name] = IF @ = "on" THEN "off" ELSE "on"]
        /\ Cardinality({m \in MenuNames : n_ovr'[m] = "on"}) <= MaxOverrides
        /\ Edited
        /\ UNCHANGED <<n_parm, n_menu, n_value, src, n_editable, n_latest>>
        /\ UNCHANGED otherThanNode

\* the user switches the "latest" toggle
switch_latest ==
    /\ n_latest # "absent"
    /\ n_latest' = IF n_latest = "on" THEN "off" ELSE "on"
    /\ Edited
    /\ UNCHANGED <<n_parm, n_menu, n_value, src, n_ovr, n_editable>>
    /\ UNCHANGED otherThanNode

\* the scene is saved under the path of another task
save_scene_as ==
    /\ \E hip \in SceneTasks : src' = [src EXCEPT !.hip = hip]
    /\ Edited
    /\ UNCHANGED <<n_parm, n_menu, n_value, n_ovr, n_editable, n_latest>>
    /\ UNCHANGED otherThanNode

\* the call returns to the host, or its exception is reported and dropped
call_returns ==
    /\ n_op # NoOp
    /\ n_op' = NoOp
    /\ n_log' = <<>>
    /\ UNCHANGED <<n_parm, n_menu, n_value, src, n_ovr, n_editable, n_latest, n_edits>>
    /\ UNCHANGED otherThanNode

CascadeNext ==
    \/ call_returns
    \/ call_update_all_menus
    \/ call_update_menu
    \/ call_get_version
    \/ call_auto_generate_shot_usd
    \/ pick_menu_entry
    \/ switch_override
    \/ switch_latest
    \/ save_scene_as

SpecCascade == CascadeInit /\ [][CascadeNext]_vars

----------------------------------------------------------------------------
(* Claims about the cascade *)

\* the chains the cascade walks, up to their task menu
AssetCascade == <<"asset_type", "asset", "step", "task">>
ShotCascade == <<"sequence", "shot", "shot_step", "shot_task">>
CascadeMenus == SeqToSet(AssetCascade) \cup SeqToSet(ShotCascade)

CascadeOf(name) ==
    IF name \in SeqToSet(AssetCascade) THEN AssetCascade ELSE ShotCascade

\* the part of a chain from a menu on
From(chain, name) ==
    LET k == CHOOSE i \in 1..Len(chain) : chain[i] = name
    IN  SubSeq(chain, k, Len(chain))

Logged == [i \in 1..Len(n_log) |-> n_log[i].menu]

IsPrefix(a, b) == Len(a) <= Len(b) /\ a = SubSeq(b, 1, Len(a))

\* the selections a menu's records are fetched with, read off the node as the
\* cascade left it; task_menu feeds the version menu
FilterNow(name, task_menu) ==
    LET sel(m) == Sel(NodeState, Env, m)
    IN  CASE name = "asset" -> <<sel("asset_type")>>
          [] name = "step" -> <<sel("asset")>>
          [] name = "task" -> <<sel("asset"), sel("step")>>
          [] name = "shot" -> <<sel("sequence")>>
          [] name = "shot_step" -> <<sel("shot")>>
          [] name = "shot_task" -> <<sel("shot"), sel("shot_step")>>
          [] name = "version" -> <<sel(task_menu)>>
          [] OTHER -> <<>>

\* C5, as the claim states it: update_X_menu regenerates X and then every
\* menu after X in its chain, the version menu included, each after its
\* predecessor and filtered by the selection its predecessor holds.
C5_CascadeReachesVersion ==
    n_op.name \in CascadeMenus =>
        LET chain == CascadeOf(n_op.name)
        IN  /\ Logged = From(chain, n_op.name) \o <<"version", "menus_updated">>
            /\ \A i \in 1..Len(n_log) :
                   n_log[i].filter = FilterNow(n_log[i].menu, chain[Len(chain)])

\* C5, amended: update_X_menu regenerates X and then the menus after X up to
\* the task menu of its chain, in chain order, each filtered by the selection
\* its predecessors hold by then; the version menu follows only when the node
\* has a "latest" toggle that is off, filtered by the task menu of the mode the
\* template selects; a step that raises ends the cascade; nothing else is
\* regenerated.
C5_CascadeUpToTask ==
    n_op.name \in CascadeMenus =>
        LET expected == From(CascadeOf(n_op.name), n_op.name)
                            \o (IF n_latest = "off" THEN <<"version">> ELSE <<>>)
                            \o <<"menus_updated">>
            mode_task == IF in_asset_mode(NodeState, Env) THEN "task" ELSE "shot_task"
        IN  /\ IsPrefix(Logged, expected)
            /\ ~n_op.raised => Logged = expected
            /\ n_op.raised => Logged # expected
            /\ \A i \in 1..Len(n_log) :
                   n_log[i].filter = FilterNow(n_log[i].menu, mode_task)

\* update_asset_menu has run through to a regenerated version menu
C5_Witness ==
    /\ n_op.name = "asset"
    /\ ~n_op.raised
    /\ Logged = <<"asset", "step", "task", "version", "menus_updated">>
    /\ n_menu["step"] # <<>>

\* C6: right after update_all_menus has returned, a second update_all_menus with
\* the same force flag returns too and leaves every menu with the same entries
\* and the same selection.
C6_UpdateAllIdempotent ==
    (n_op.name = "update_all_menus" /\ ~n_op.raised) =>
        LET again == update_all_menus(NodeState, Env, n_op.force)
        IN  /\ ~again.raised
            /\ again.menu = n_menu
            /\ \A m \in MenuNames : Sel(again, Env, m) = Sel(NodeState, Env, m)

\* the menus a call regenerated, in order
Regenerated == SelectSeq(Logged, LAMBDA m : m # "menus_updated")

Pos(chain, m) == CHOOSE i \in 1..Len(chain) : chain[i] = m

\* a list of menus that walks down a chain: every menu is of the chain and
\* comes later in it than the one before
WalksDown(chain, ms) ==
    /\ \A i \in 1..Len(ms) : ms[i] \in SeqToSet(chain)
    /\ \A i, j \in 1..Len(ms) : i < j => Pos(chain, ms[i]) < Pos(chain, ms[j])

\* C12: each chain has at most 6 menus; a call of update_X_menu regenerates
\* menus of X's chain only, none before X and none twice, each later in the
\* chain than the one before, so at most 6; update_all_menus (and __init__)
\* regenerates the template menu, then walks down the asset chain once and
\* then the shot chain once.
C12_CascadeTerminates ==
    /\ Len(AssetChain) <= 6 /\ Len(ShotChain) <= 6
    /\ n_op.name \in MenuNames =>
           LET chain == IF n_op.name \in SeqToSet(AssetChain) THEN AssetChain
                        ELSE ShotChain
           IN  /\ WalksDown(chain, Regenerated)
               /\ \A i \in 1..Len(Regenerated) :
                      Pos(chain, Regenerated[i]) >= Pos(chain, n_op.name)
               /\ Len(Regenerated) <= 6
    /\ n_op.name \in {"update_all_menus", "__init__"} =>
           \E k \in 0..Len(Regenerated) :
               /\ WalksDown(AssetChain, SubSeq(Regenerated, 1, k))
               /\ WalksDown(Tail(ShotChain), SubSeq(Regenerated, k + 1, Len(Regenerated)))

\* update_all_menus has walked both chains down to the version menu
C12_Witness ==
    /\ n_op.name = "update_all_menus"
    /\ ~n_op.raised
    /\ Regenerated = AssetChain \o Tail(ShotChain)

\* C20: no cascade call raises, whatever selections and records are missing.
C20_MissingSelectionNotPropagated ==
    n_op.name \in MenuNames \cup {"update_all_menus", "__init__"} => ~n_op.raised

\* C23: get_version returns "latest" when the latest flag is set, the specified
\* version when latest is not set and a version is specified, and "latest"
\* when latest is not set and no version is specified.
C23_GetVersion ==
    (n_op.name = "get_version" /\ n_latest # "absent") =>
        n_op.val = IF n_latest = "on" THEN PyS("latest")
                   ELSE IF n_parm["version"] # "" THEN PyS(n_parm["version"])
                   ELSE PyS("latest")

\* C24: during update_all_menus on a node with the asset and the shot menus,
\* no menus_updated call happens before the last menu of the last chain has
\* been regenerated.
C24_MenusUpdatedAfterAllMenus ==
    n_op.name = "update_all_menus" =>
        \A i, j \in 1..Len(Logged) :
            (i < j /\ Logged[i] = "menus_updated") => Logged[j] = "menus_updated"

\* C27: after a cascade completes, for every menu it regenerated that has at
\* least one entry the value get_selection returns is the key of one of that
\* menu's entries.
C27_SelectionIsAnEntry ==
    (n_op.name \in MenuNames \cup {"update_all_menus", "__init__"} /\ ~n_op.raised) =>
        \A m \in SeqToSet(Regenerated) :
            n_menu[m] # <<>> =>
                LET sel == Sel(NodeState, Env, m)
                IN  sel # None /\ PyStr(sel) \in SeqToSet(MenuKeys(n_menu[m]))

\* C28: update_all_menus(force=True) regenerates each menu from template to
\* version with force set, the version menu unconditionally, and a forced
\* regeneration takes the non-empty context value as selection even for an
\* overridden menu.
C28_ForcedRefreshReachesVersion ==
    (n_op.name = "update_all_menus" /\ n_op.force /\ ~n_op.raised) =>
        /\ Regenerated = AssetChain \o Tail(ShotChain)
        /\ \A i \in 1..Len(n_log) :
               n_log[i].menu # "menus_updated" =>
                   /\ n_log[i].force
                   /\ Truthy(CtxValue(n_log[i].menu, Env.task)) =>
                          PyStr(n_log[i].selection)
                              = PyStr(CtxValue(n_log[i].menu, Env.task))

\* C25: auto_generate_shot_usd on a node in shot mode with a task selected
\* calls publish_shot_usd with the shot of that task, and raises when the node
\* is not in shot mode.
C25_ShotUsdGenerated ==
    n_op.name = "auto_generate_shot_usd" =>
        IF in_shot_mode(NodeState, Env)
        THEN ~IntRaises(Sel(NodeState, Env, "shot_task")) =>
                 (~n_op.raised /\ n_op.val \in {PyNum(i) : i \in 1..MaxKey})
        ELSE n_op.raised

----------------------------------------------------------------------------
(* update_output_path of the publish nodes and of the file cache node       *)
(* shotgun/usdpublishnode.py, usdcompoundnode.py, rebellionfilecache.py     *)

\* the highest version number the project holds
MaxVersion == 2

\* what a call reads: is the selected template in the project configuration,
\* does hm() list templates for it, is the node in asset or shot mode, the
\* selected task, the next version (the current_version parm of a file cache)
OutputEnvs ==
    [has_template : BOOLEAN, found : BOOLEAN, mode_ok : BOOLEAN,
     task : {None, PyS("1")}, next : 1..MaxVersion, farm : BOOLEAN]

\* a call's result: the members after it, whether it asked the template
\* client, whether it raised
Done(n, queried) == [node |-> n, queried |-> queried, raised |-> FALSE]
Failed(n, queried) == [node |-> n, queried |-> queried, raised |-> TRUE]

\* sg_template.output_path_from_template and os.path.dirname of it
WithOutputs(n, task, version) ==
    [n EXCEPT !.version = version,
              !.path = PyS(task.s \o "/v" \o PyStr(version)),
              !.root = PyS(task.s)]

\* ShotgunUSDPublishNode.update_output_path without its first check
usd_update_output_path_unguarded(n, e) ==
    IF ~e.has_template THEN Done([n EXCEPT !.missing = TRUE], TRUE)
    ELSE IF ~e.mode_ok THEN Failed(n, TRUE)
    ELSE IF ~Truthy(e.task) THEN Done(n, TRUE)
    ELSE Done(WithOutputs(n, e.task, PyNum(e.next)), TRUE)

\* ShotgunUSDPublishNode.update_output_path
usd_update_output_path(n, e) ==
    IF n.missing THEN Done(n, FALSE)
    ELSE IF ~e.has_template THEN Done([n EXCEPT !.missing = TRUE], TRUE)
    ELSE IF ~e.mode_ok THEN Failed(n, TRUE)
    ELSE IF ~Truthy(e.task) THEN Done(n, TRUE)
    ELSE Done(WithOutputs(n, e.task, PyNum(e.next)), TRUE)

\* USDCompoundPublish.update_output_path
compound_update_output_path(n, e) ==
    IF n.missing THEN Done(n, FALSE)
    ELSE IF ~(e.found /\ e.mode_ok) THEN Done(n, FALSE)
    ELSE IF ~e.has_template THEN Done([n EXCEPT !.missing = TRUE], TRUE)
    ELSE IF ~Truthy(e.task) THEN Done(n, TRUE)
    ELSE Done(WithOutputs(n, e.task, PyNum(e.next)), TRUE)

\* a file cache node that returns early on the flag as the publish nodes do
cache_update_output_path_sticky(n, e, sg) ==
    IF n.missing THEN Done(n, FALSE) ELSE usd_update_output_path(n, e)

\* RebellionFileCacheNode.update_output_path(sg)
cache_update_output_path(n, e, sg) ==
    LET zfill(x) == IF e.next < 10 THEN "00" \o x ELSE "0" \o x
        write(m) ==
            IF m.fields = None THEN Failed(m, sg)
            ELSE Done(WithOutputs(m, m.fields, PyS(zfill(PyStr(PyNum(e.next))))), sg)
    IN  IF e.farm /\ Truthy(n.root) THEN Done(n, FALSE)
        ELSE IF ~sg THEN write(n)
        ELSE IF ~e.has_template THEN Done([n EXCEPT !.missing = TRUE], TRUE)
        ELSE IF ~e.mode_ok THEN Failed(n, TRUE)
        ELSE IF ~Truthy(e.task) THEN Done(n, TRUE)
        ELSE write([n EXCEPT !.fields = e.task])

UpdateOutputPath(class, n, e, sg) ==
    CASE class = "usd" -> usd_update_output_path(n, e)
      [] class = "compound" -> compound_update_output_path(n, e)
      [] OTHER -> cache_update_output_path(n, e, sg)

\* ShotgunUSDPublishNode.usd_publish: published is the version and the path
\* handed to SGPublish and the USD ROP, empty when the call raises before
\* anything is written
usd_publish(n, e) ==
    LET first == usd_update_output_path(n, e)
        task_raises == ~e.mode_ok \/ IntRaises(e.task)
    IN  IF first.raised \/ task_raises
        THEN [node |-> first.node, queried |-> first.queried, raised |-> TRUE,
              published |-> <<>>]
        ELSE LET last == usd_update_output_path(first.node, e)
             IN  [node |-> last.node, queried |-> first.queried,
                  raised |-> last.raised,
                  published |-> <<first.node.version, first.node.path>>]

\* the constructor ends in update_all_menus, whose menus_updated callback is
\* update_output_path
OutputInit ==
    /\ MenuStart
    /\ CtxStart
    /\ NodeStart
    /\ PubStart /\ SingStart /\ HookStart
    /\ o_class \in {"usd", "compound", "cache"}
    /\ o_env \in OutputEnvs
    /\ LET r == UpdateOutputPath(o_class, FreshOutput, o_env, TRUE)
       IN  ~r.raised /\ o_node = r.node
    /\ o_call = NoOutputCall

call_update_output_path ==
    \E sg \in (IF o_class = "cache" THEN BOOLEAN ELSE {TRUE}) :
        LET r == UpdateOutputPath(o_class, o_node, o_env, sg)
        IN  /\ o_node' = r.node
            /\ o_call' = [op |-> "update_output_path", sg |-> sg, before |-> o_node,
                          queried |-> r.queried, raised |-> r.raised,
                          published |-> <<>>]
            /\ UNCHANGED <<o_class, o_env>>
            /\ UNCHANGED otherThanOut

\* the publish button of a USD publish node
call_usd_publish ==
    /\ o_class = "usd"
    /\ LET r == usd_publish(o_node, o_env)
       IN  /\ o_node' = r.node
           /\ o_call' = [op |-> "usd_publish", sg |-> TRUE, before |-> o_node,
                         queried |-> r.queried, raised |-> r.raised,
                         published |-> r.published]
    /\ UNCHANGED <<o_class, o_env>>
    /\ UNCHANGED otherThanOut

\* the project configuration, the menus, the versions on disk or the session
\* change
output_env_changes ==
    /\ \E e \in OutputEnvs : e # o_env /\ o_env' = e
    /\ o_call' = NoOutputCall
    /\ UNCHANGED <<o_class, o_node>>
    /\ UNCHANGED otherThanOut

\* the node's instance is constructed anew, which is what clears the flag
output_node_reconstructed ==
    /\ LET r == UpdateOutputPath(o_class, FreshOutput, o_env, TRUE)
       IN  ~r.raised /\ o_node' = r.node
    /\ o_call' = NoOutputCall
    /\ UNCHANGED <<o_class, o_env>>
    /\ UNCHANGED otherThanOut

OutputNext ==
    \/ call_update_output_path
    \/ call_usd_publish
    \/ output_env_changes
    \/ output_node_reconstructed

SpecOutput == OutputInit /\ [][OutputNext]_vars

Outputs(n) == <<n.version, n.path, n.root>>

\* C7, as the claim states it: a call of update_output_path on a node whose
\* missing_template is set does not ask the template client and leaves
\* output_version, output_path and output_root as they were.
C7_StickyTemplateFailure ==
    (o_call.op = "update_output_path" /\ o_call.before.missing) =>
        /\ ~o_call.queried
        /\ Outputs(o_node) = Outputs(o_call.before)

\* C7, amended: the above holds of ShotgunUSDPublishNode and of
\* USDCompoundPublish; RebellionFileCacheNode.update_output_path(sg=True) asks
\* the template client on every call that gets past the farm shortcut, the flag
\* staying set, and update_output_path(sg=False) never asks it.
C7_StickyOnPublishNodes ==
    (o_call.op = "update_output_path" /\ o_call.before.missing) =>
        /\ o_node.missing
        /\ o_class \in {"usd", "compound"} =>
               /\ ~o_call.queried
               /\ ~o_call.raised
               /\ o_node = o_call.before
        /\ o_class = "cache" =>
               o_call.queried =
                   (o_call.sg /\ ~(o_env.farm /\ Truthy(o_call.before.root)))

\* a publish node skips the update although the template is available again
C7_Witness ==
    /\ o_call.op = "update_output_path"
    /\ o_class = "usd"
    /\ o_call.before.missing
    /\ o_env.has_template /\ o_env.mode_ok /\ Truthy(o_env.task)

\* a call that consults the project configuration, made with the flag set
\* once the template is available and a task is selected
CallAfterTemplateBack ==
    /\ o_call.op = "update_output_path"
    /\ o_call.before.missing
    /\ o_call.sg /\ ~(o_env.farm /\ Truthy(o_call.before.root))
    /\ o_env.has_template /\ o_env.found /\ o_env.mode_ok /\ Truthy(o_env.task)

\* C18, as the claim states it: once the template is available again, the
\* next update_output_path call on a node with the flag set evaluates
\* output_version and output_path.
C18_RecoversWhenAvailable ==
    CallAfterTemplateBack =>
        /\ o_call.queried
        /\ PyStr(o_node.version) \in {ToString(o_env.next), "00" \o ToString(o_env.next)}
        /\ o_node.path = PyS(o_env.task.s \o "/v" \o PyStr(o_node.version))

\* C18, amended: that holds of RebellionFileCacheNode; on ShotgunUSDPublishNode
\* and USDCompoundPublish the call is skipped and the outputs stay as they
\* were, however the template fares.
C18_RecoversOnFileCache ==
    CallAfterTemplateBack =>
        IF o_class = "cache"
        THEN /\ o_call.queried /\ ~o_call.raised
             /\ o_node.version = PyS("00" \o ToString(o_env.next))
             /\ o_node.path = PyS(o_env.task.s \o "/v" \o PyStr(o_node.version))
             /\ o_node.root = PyS(o_env.task.s)
        ELSE /\ ~o_call.queried
             /\ o_node = o_call.before

\* a file cache node that had no outputs has them after the template is back
C18_Witness ==
    /\ CallAfterTemplateBack
    /\ o_class = "cache"
    /\ o_call.before.version = None
    /\ o_node.version # None

\* C29: once a template-not-found condition is recorded on a publish node,
\* usd_publish performs no publish: nothing is written or registered with an
\* output version and path that the update_output_path call at its start did
\* not recompute.
C29_NoPublishAfterMissingTemplate ==
    (o_call.op = "usd_publish" /\ o_node.missing) => o_call.published = <<>>

----------------------------------------------------------------------------
(* The pyblish runs: node validation (pyblish/nodevalidator.py and          *)
(* pyblish/plugins) and the USD publish (shotgun/usdpublishnode.py and      *)
(* shotgun/pyblish_*plugins).  Order keys are held in tenths.               *)

\* the most nodes handed to a validation run
MaxNodes == 1

\* the base order each plugin class is declared with
PluginStage(name) ==
    CASE name \in {"CollectNodes", "CollectPublishNode"} -> "collect"
      [] name \in {"RunPublish", "RunPublishAssetUSD", "RunPublishShotUSD",
                   "DepartmentMainUSD"} -> "extract"
      [] OTHER -> "validate"

\* pyblish.api.CollectorOrder, ValidatorOrder, ExtractorOrder
StageOrder(stage) ==
    CASE stage = "collect" -> 0
      [] stage = "validate" -> 10
      [] OTHER -> 20

\* NodeDetails declared above the other validators
PluginOrder_details_late(name) ==
    StageOrder(PluginStage(name))
        + CASE name = "NodeDetails" -> 1
            [] name = "SimpleNodeValidator" -> 1
            [] name = "ValidateNode" -> 2
            [] name \in {"RunPublishAssetUSD", "RunPublishShotUSD",
                         "DepartmentMainUSD"} -> 1
            [] OTHER -> 0

\* RunPublish declared with the collectors' order
PluginOrder_publish_early(name) ==
    IF name = "RunPublish" THEN StageOrder("collect")
    ELSE StageOrder(PluginStage(name))
             + CASE name = "NodeDetails" -> -1
                 [] name = "SimpleNodeValidator" -> 1
                 [] name = "ValidateNode" -> 2
                 [] name \in {"RunPublishAssetUSD", "RunPublishShotUSD",
                              "DepartmentMainUSD"} -> 1
                 [] OTHER -> 0

\* the order attribute of each plugin class
PluginOrder(name) ==
    StageOrder(PluginStage(name))
        + CASE name = "NodeDetails" -> -1
            [] name = "SimpleNodeValidator" -> 1
            [] name = "ValidateNode" -> 2
            [] name \in {"RunPublishAssetUSD", "RunPublishShotUSD",
                         "DepartmentMainUSD"} -> 1
            [] OTHER -> 0

\* the families attribute of each plugin class; a plugin declared on a node
\* carries the node's type name, a class without the attribute matches all
PluginFamilies(name) ==
    CASE name \in {"NodeDetails", "IsPublished"} -> {"generic"}
      [] name = "SimpleNodeValidator" -> {"simple"}
      [] name = "ValidateNode" -> {"hda"}
      [] OTHER -> {"*"}

\* the family list with the catch-all label put first
generate_node_dict_generic_first(node) ==
    <<"generic">>
        \o (IF node.has_plugin THEN <<"hda">> ELSE <<>>)
        \o (IF node.has_simple THEN <<"simple">> ELSE <<>>)

\* PyblishNodeValidator.generate_node_dict: the family list of one node that
\* is a digital asset; "hda" stands for node.type().name()
generate_node_dict(node) ==
    (IF node.has_plugin THEN <<"hda">> ELSE <<>>)
        \o (IF node.has_simple THEN <<"simple">> ELSE <<>>)
        \o <<"generic">>

\* the keys of PyblishNodeValidator.all_nodes: nodes that are not digital
\* assets are skipped
all_nodes(nodes) == {n \in nodes : n.hda}

\* the plugins PyblishNodeValidator.validate and
\* ShotgunUSDPublishNode.run_publish register
RegisteredPlugins(kind, nodes) ==
    CASE kind = "nodes" ->
             {"CollectNodes", "NodeDetails", "IsPublished", "SimpleNodeValidator"}
                 \cup (IF \E n \in all_nodes(nodes) : n.has_plugin
                       THEN {"ValidateNode"} ELSE {})
      [] kind = "asset" ->
             {"CollectPublishNode", "ValidateContext", "ValidateReferences",
              "RunPublish", "RunPublishAssetUSD"}
      [] OTHER ->
             {"CollectPublishNode", "ValidateContext", "ValidateReferences",
              "RunPublish", "RunPublishShotUSD", "DepartmentMainUSD"}

\* CollectNodes.process: create_instance(name, family=families[0]) and
\* data["families"] = families[1:]; CollectPublishNode.process names no family
\* and the framework fills in "default"
Collected(plugin, nodes) ==
    IF plugin = "CollectNodes"
    THEN {[name |-> n.name, family |-> Head(generate_node_dict(n)),
           families |-> Tail(generate_node_dict(n)),
           valid |-> n.valid, failed |-> FALSE] : n \in all_nodes(nodes)}
    ELSE {[name |-> n.name, family |-> "default", families |-> <<>>,
           valid |-> n.valid, failed |-> FALSE] : n \in nodes}

\* ValidateContext.matches_scene_context raises
matches_scene_context_raises(sc, ovr) ==
    LET custom == task_id_from_custom(sc)
    IN  custom.raised \/ Truthy(custom.val) \/ context_overriden(ovr)

\* does process(instance) of the plugin raise: the node's own validate
\* function, or the context check of the publish node
ProcessRaises(plugin, inst, sc, ovr) ==
    CASE plugin \in {"SimpleNodeValidator", "ValidateNode"} -> ~inst.valid
      [] plugin = "ValidateContext" -> matches_scene_context_raises(sc, ovr)
      [] OTHER -> FALSE

\* the scenes a run starts from: the nodes handed to PyblishNodeValidator, or
\* the one publish node of run_publish
Scenes(kind) ==
    IF kind = "nodes"
    THEN LET kinds == [name : {"n" \o ToString(k) : k \in 1..MaxNodes},
                       hda : BOOLEAN, has_plugin : BOOLEAN, has_simple : BOOLEAN,
                       valid : BOOLEAN]
         IN  {S \in SUBSET kinds :
                  S # {} /\ \A a, b \in S : a.name = b.name => a = b}
    ELSE {{[name |-> "usdpublish", hda |-> TRUE, has_plugin |-> FALSE,
            has_simple |-> FALSE, valid |-> TRUE]}}

\* the orders in which a set of plugins can get registered
Registrations(S) ==
    {f \in [1..Cardinality(S) -> S] : \A i, j \in DOMAIN f : f[i] = f[j] => i = j}

\* the framework processes plugins by ascending order, ties in registration
\* order
ProcessingOrder(reg) ==
    LET before(j, i) ==
            \/ PluginOrder(reg[j]) < PluginOrder(reg[i])
            \/ PluginOrder(reg[j]) = PluginOrder(reg[i]) /\ j < i
        rank(i) == Cardinality({j \in DOMAIN reg : before(j, i)}) + 1
    IN  [k \in DOMAIN reg |-> reg[CHOOSE i \in DOMAIN reg : rank(i) = k]]

\* the framework hands a plugin the instances that share a family with it
Applicable(plugin, inst) ==
    \/ "*" \in PluginFamilies(plugin)
    \/ PluginFamilies(plugin) \cap ({inst.family} \cup SeqToSet(inst.families)) # {}

\* the UI is up with the plugins registered and nothing processed yet
PublishInit ==
    /\ MenuStart /\ NodeStart /\ OutStart /\ SingStart /\ HookStart
    /\ farm = FALSE /\ c_res = Idle
    /\ \E kind \in {"nodes", "asset", "shot"} :
           /\ p_nodes \in Scenes(kind)
           /\ p_reg \in Registrations(RegisteredPlugins(kind, p_nodes))
           /\ src \in {NoSources} \cup
                  (IF kind = "nodes" THEN {}
                   ELSE {[NoSources EXCEPT !.custom_on = TRUE, !.custom_val = "1"]})
           /\ n_ovr \in {[m \in MenuNames |-> "off"]} \cup
                  (IF kind = "nodes" THEN {}
                   ELSE {[m \in MenuNames |-> IF m = "task" THEN "on" ELSE "off"]})
    /\ p_todo = ProcessingOrder(p_reg)
    /\ p_inst = {}
    /\ p_trace = <<>>

\* the framework processes the next plugin: a collector on the context, any
\* other plugin on each instance it applies to, an extractor only on the
\* instances no validator has failed
process_next ==
    /\ p_todo # <<>>
    /\ LET plugin == Head(p_todo)
           stage == PluginStage(plugin)
           ran == IF stage = "collect" THEN {}
                  ELSE {i \in p_inst : /\ Applicable(plugin, i)
                                       /\ ~(stage = "extract" /\ i.failed)}
           bad == {i \in ran : ProcessRaises(plugin, i, src, n_ovr)}
       IN  /\ p_inst' = IF stage = "collect"
                        THEN p_inst \cup Collected(plugin, p_nodes)
                        ELSE (p_inst \ bad) \cup {[i EXCEPT !.failed = TRUE] : i \in bad}
           /\ p_trace' = Append(p_trace, [plugin |-> plugin,
                                          ran |-> {i.name : i \in ran},
                                          raised |-> {i.name : i \in bad}])
    /\ p_todo' = Tail(p_todo)
    /\ UNCHANGED <<p_nodes, p_reg, src, n_ovr>>
    /\ UNCHANGED otherThanPub

PublishNext == process_next

SpecPublish == PublishInit /\ [][PublishNext]_vars

----------------------------------------------------------------------------
(* Claims about the pyblish runs *)

Ran(name) == {k \in DOMAIN p_trace : p_trace[k].plugin = name}

C9_PipelineOrdering ==
    LET rank(name) == CASE PluginStage(name) = "collect" -> 1
                        [] PluginStage(name) = "validate" -> 2
                        [] OTHER -> 3
        chain == <<"NodeDetails", "IsPublished", "SimpleNodeValidator", "ValidateNode">>
    IN  /\ \A a, b \in DOMAIN p_trace :
               a < b => /\ PluginOrder(p_trace[a].plugin) <= PluginOrder(p_trace[b].plugin)
                        /\ rank(p_trace[a].plugin) <= rank(p_trace[b].plugin)
        /\ \A x, y \in DOMAIN chain :
               x < y => \A a \in Ran(chain[x]), b \in Ran(chain[y]) : a < b
        /\ p_todo = <<>> => {p_trace[k].plugin : k \in DOMAIN p_trace}
                                = {p_reg[j] : j \in DOMAIN p_reg}

\* a validation run is over whose plugins were registered in the reverse of
\* the order they ran in
C9_Witness ==
    /\ p_todo = <<>>
    /\ Len(p_reg) = 5
    /\ \A k \in DOMAIN p_reg : p_reg[k] = p_trace[Len(p_reg) + 1 - k].plugin
    /\ p_reg[1] = "ValidateNode"

\* C17: in a publish run on a node none of whose context sources resolves to
\* a valid task id, RunPublish (usd_publish) is run on no instance.
C17_InvalidContextBlocksPublish ==
    NoneValid(src) => \A k \in Ran("RunPublish") : p_trace[k].ran = {}

\* C11: once CollectNodes has run there is exactly one instance for each node
\* handed to the validator that is a digital asset and none for any other
\* node; the instance's primary family followed by its data["families"] is the
\* node type name if the node declares plugins, then "simple" if it implements
\* pyblish_validate, then "generic", so it is never empty and ends in
\* "generic".
C11_CollectTagging ==
    Ran("CollectNodes") # {} =>
        /\ \A n \in p_nodes :
               Cardinality({i \in p_inst : i.name = n.name}) = IF n.hda THEN 1 ELSE 0
        /\ \A i \in p_inst : \E n \in p_nodes :
               LET tags == <<i.family>> \o i.families
               IN  /\ n.name = i.name
                   /\ tags[Len(tags)] = "generic"
                   /\ Len(tags) = 1 + (IF n.has_plugin THEN 1 ELSE 0)
                                     + (IF n.has_simple THEN 1 ELSE 0)
                   /\ n.has_plugin => tags[1] = "hda"
                   /\ n.has_simple => tags[Len(tags) - 1] = "simple"

\* a node with plugins and a validate function has been collected with three
\* families
C11_Witness ==
    /\ Ran("CollectNodes") # {}
    /\ \E i \in p_inst :
           i.family = "hda" /\ i.families = <<"simple", "generic">>

----------------------------------------------------------------------------
(* The instance cache: ShotgunNode.get_shotgun_node and initialise          *)
(* (shotgun/node.py).  0 stands for None, k > 0 for the k-th instance       *)
(* constructed for a host node.  A constructor is a position of its own:    *)
(* while it refreshes the menus, parm callbacks of the host node call       *)
(* get_shotgun_node again, and it can raise.                                *)

\* the most constructor calls per host node, and the deepest nesting of calls
MaxInstances == 2
MaxDepth == 2

Constructing(h) == {k \in DOMAIN s_stack : s_stack[k].host = h}

CanConstruct(h) ==
    /\ Len(s_stack) < MaxDepth
    /\ s_made[h] + Cardinality(Constructing(h)) < MaxInstances

\* get_shotgun_node when sg_init is set: the cached sg_node is returned
get_shotgun_node_cached ==
    \E h \in Hosts :
        /\ s_init[h]
        /\ s_ret' = [called |-> TRUE, host |-> h, raised |-> FALSE, val |-> s_node[h]]
        /\ UNCHANGED <<s_init, s_node, s_made, s_stack>>
        /\ UNCHANGED otherThanSing

\* get_shotgun_node when sg_init is not set: sets it and enters cls(current_node)
get_shotgun_node_constructs ==
    \E h \in Hosts :
        /\ ~s_init[h]
        /\ CanConstruct(h)
        /\ s_init' = [s_init EXCEPT ![h] = TRUE]
        /\ s_stack' = Append(s_stack, [op |-> "get_shotgun_node", host |-> h])
        /\ UNCHANGED <<s_node, s_made, s_ret>>
        /\ UNCHANGED otherThanSing

\* initialise: sets sg_init and enters cls(current_node), whatever is cached
initialise ==
    \E h \in Hosts :
        /\ CanConstruct(h)
        /\ s_init' = [s_init EXCEPT ![h] = TRUE]
        /\ s_stack' = Append(s_stack, [op |-> "initialise", host |-> h])
        /\ UNCHANGED <<s_node, s_made, s_ret>>
        /\ UNCHANGED otherThanSing

\* the innermost constructor returns: the caller stores the new instance as
\* sg_node, and get_shotgun_node returns it
constructor_returns ==
    /\ s_stack # <<>>
    /\ LET f == s_stack[Len(s_stack)]
           new == s_made[f.host] + 1
       IN  /\ s_made' = [s_made EXCEPT ![f.host] = new]
           /\ s_node' = [s_node EXCEPT ![f.host] = new]
           /\ s_ret' = IF f.op = "get_shotgun_node"
                       THEN [called |-> TRUE, host |-> f.host, raised |-> FALSE,
                             val |-> new]
                       ELSE s_ret
    /\ s_stack' = SubSeq(s_stack, 1, Len(s_stack) - 1)
    /\ UNCHANGED s_init
    /\ UNCHANGED otherThanSing

\* the innermost constructor raises: the caller stores nothing and the
\* exception leaves get_shotgun_node or initialise
constructor_raises ==
    /\ s_stack # <<>>
    /\ LET f == s_stack[Len(s_stack)]
       IN  s_ret' = IF f.op = "get_shotgun_node"
                    THEN [called |-> TRUE, host |-> f.host, raised |-> TRUE, val |-> 0]
                    ELSE s_ret
    /\ s_stack' = SubSeq(s_stack, 1, Len(s_stack) - 1)
    /\ UNCHANGED <<s_init, s_node, s_made>>
    /\ UNCHANGED otherThanSing

SingInit ==
    /\ MenuStart /\ CtxStart /\ NodeStart /\ OutStart /\ PubStart /\ SingStart /\ HookStart

SingNext ==
    \/ get_shotgun_node_cached
    \/ get_shotgun_node_constructs
    \/ initialise
    \/ constructor_returns
    \/ constructor_raises

SpecSingleton == SingInit /\ [][SingNext]_vars

\* C10: at most one instance is ever constructed for a host node, and every
\* get_shotgun_node call that returns returns that instance, never None and
\* never another one.
C10_PerNodeSingleton ==
    /\ \A h \in Hosts : s_made[h] <= 1
    /\ (s_ret.called /\ ~s_ret.raised) => s_ret.val = 1

----------------------------------------------------------------------------
(* pyblish/plugins/simple.py and pyblish/nodevalidator.py: the validate and *)
(* auto-fix hooks.  h_item is a validator plugin with the node it is handed:*)
(* pyblish_validate and pyblish_fix are the attributes of the node's         *)
(* PythonModule, validate and auto_fix are what a plugin declared on the    *)
(* node overrides of ValidateNode or ValidateFixNode.                       *)

\* an attribute of node.hm(): missing, not callable, or a function that
\* returns or raises
HookAttrs == {"absent", "value", "passes", "fails"}
\* a method of a plugin class: left as the base class has it, or overridden by
\* a method that returns or raises
Overrides == {"inherited", "passes", "fails"}

ValidatorItems ==
    [plugin : {"SimpleNodeValidator"}, validate : {"inherited"},
     auto_fix : {"inherited"}, pyblish_validate : HookAttrs, pyblish_fix : HookAttrs]
    \cup [plugin : {"ValidateNode"}, validate : Overrides,
          auto_fix : {"inherited"}, pyblish_validate : HookAttrs,
          pyblish_fix : HookAttrs]
    \cup [plugin : {"ValidateFixNode"}, validate : Overrides,
          auto_fix : Overrides, pyblish_validate : HookAttrs,
          pyblish_fix : HookAttrs]

\* node.hm().<name>(node)
CallHook(op, name, attr) ==
    [op |-> op,
     hook |-> IF attr \in {"passes", "fails"} THEN name ELSE "none",
     skipped |-> FALSE,
     error |-> CASE attr = "passes" -> "none"
                 [] attr = "fails" -> "raised by hook"
                 [] attr = "value" -> "TypeError"
                 [] OTHER -> "AttributeError"]

Skipped(op) == [op |-> op, hook |-> "none", skipped |-> TRUE, error |-> "none"]

\* SimpleNodeValidator.has_validate_method
has_validate_method(item) == item.pyblish_validate \in {"passes", "fails"}

\* a check that takes any attribute of that name for a fix function
has_fix_method_any_attribute(item) == item.pyblish_fix # "absent"

\* SimpleNodeValidator.has_fix_method
has_fix_method(item) == item.pyblish_fix \in {"passes", "fails"}

\* SimpleNodeValidator.process, for the node of the instance
SimpleNodeValidator_process(item) ==
    IF ~has_validate_method(item) THEN Skipped("process")
    ELSE CallHook("process", "pyblish_validate", item.pyblish_validate)

\* SimpleNodeValidator.auto_fix
SimpleNodeValidator_auto_fix(item) ==
    IF ~has_fix_method(item) THEN Skipped("auto_fix")
    ELSE CallHook("auto_fix", "pyblish_fix", item.pyblish_fix)

\* ValidateNode.process and ValidateFixNode.process: self.validate(node), which
\* raises NotImplementedError unless the plugin overrides it
ValidateNode_process(item) ==
    [op |-> "process",
     hook |-> IF item.validate = "inherited" THEN "none" ELSE "validate",
     skipped |-> FALSE,
     error |-> CASE item.validate = "inherited" -> "NotImplementedError"
                 [] item.validate = "fails" -> "raised by hook"
                 [] OTHER -> "none"]

\* ValidateFixNode.auto_fix, or the method a plugin overrides it with
ValidateFixNode_auto_fix(item) ==
    [op |-> "auto_fix",
     hook |-> IF item.auto_fix = "inherited" THEN "none" ELSE "auto_fix",
     skipped |-> FALSE,
     error |-> CASE item.auto_fix = "inherited" -> "NotImplementedError"
                 [] item.auto_fix = "fails" -> "raised by hook"
                 [] OTHER -> "none"]

HookInit ==
    /\ MenuStart /\ CtxStart /\ NodeStart /\ OutStart /\ PubStart /\ SingStart
    /\ h_item \in ValidatorItems
    /\ h_call = NoHookCall

\* the Validate stage processes the instance of the node
validate_item ==
    /\ h_call = NoHookCall
    /\ h_call' = IF h_item.plugin = "SimpleNodeValidator"
                 THEN SimpleNodeValidator_process(h_item)
                 ELSE ValidateNode_process(h_item)
    /\ UNCHANGED h_item
    /\ UNCHANGED otherThanHook

\* the operator runs the auto-fix action of a validator that has one
fix_item ==
    /\ h_call = NoHookCall
    /\ h_item.plugin # "ValidateNode"
    /\ h_call' = IF h_item.plugin = "SimpleNodeValidator"
                 THEN SimpleNodeValidator_auto_fix(h_item)
                 ELSE ValidateFixNode_auto_fix(h_item)
    /\ UNCHANGED h_item
    /\ UNCHANGED otherThanHook

\* the call is over, its outcome shown in the publish window
hook_call_returns ==
    /\ h_call # NoHookCall
    /\ h_call' = NoHookCall
    /\ UNCHANGED h_item
    /\ UNCHANGED otherThanHook

HookNext ==
    \/ validate_item
    \/ fix_item
    \/ hook_call_returns

SpecHooks == HookInit /\ [][HookNext]_vars

\* the node, or the plugin declared on it, defines no validate / fix function
NoValidateFunction ==
    IF h_item.plugin = "SimpleNodeValidator"
    THEN h_item.pyblish_validate \in {"absent", "value"}
    ELSE h_item.validate = "inherited"

NoFixFunction ==
    IF h_item.plugin = "SimpleNodeValidator"
    THEN h_item.pyblish_fix \in {"absent", "value"}
    ELSE h_item.auto_fix = "inherited"

Unimplemented ==
    \/ h_call.op = "process" /\ NoValidateFunction
    \/ h_call.op = "auto_fix" /\ NoFixFunction

\* C22, as the claim states it: validating a node that defines no validate
\* function, and running the auto-fix action on a node or validator that
\* defines no fix function, completes without raising and calls no hook.
C22_UnimplementedHookSkipped ==
    Unimplemented => (h_call.error = "none" /\ h_call.hook = "none")

\* C22, amended: SimpleNodeValidator skips a node that defines no
\* pyblish_validate function, and its auto-fix skips a node that defines no
\* pyblish_fix function, without raising and without calling a hook; a
\* ValidateNode or ValidateFixNode plugin that does not override validate, or
\* a ValidateFixNode plugin that does not override auto_fix, calls no hook
\* either and raises NotImplementedError.
C22_UnimplementedNodeHookSkipped ==
    Unimplemented =>
        /\ h_call.hook = "none"
        /\ IF h_item.plugin = "SimpleNodeValidator"
           THEN h_call.error = "none" /\ h_call.skipped
           ELSE h_call.error = "NotImplementedError" /\ ~h_call.skipped

\* the auto-fix of the simple validator has skipped a node whose pyblish_fix
\* is not a function
C22_Witness ==
    /\ h_call.op = "auto_fix"
    /\ h_item.plugin = "SimpleNodeValidator"
    /\ h_item.pyblish_fix = "value"
    /\ h_call.skipped

----------------------------------------------------------------------------
(* shotgun/node.py: configure_menus cascades the override toggle of a menu  *)
(* over the menus listed after it.                                          *)

\* ShotgunNode.update_menu_overrides; overriden is "on", "off" or "absent"
\* for the None that parm_overriden returns without an override parm
update_menu_overrides(ovr, parm_name, overriden) ==
    IF ovr[parm_name] = "absent" THEN ovr
    ELSE LET o == IF overriden = "absent" THEN parm_overriden(ovr, parm_name)
                  ELSE overriden = "on"
         IN  [ovr EXCEPT ![parm_name] = IF o THEN "on" ELSE "off"]

\* for parm_name in parms: self.update_menu_overrides(parm_name, overriden)
RECURSIVE OverrideEach(_, _, _)
OverrideEach(ovr, parms, overriden) ==
    IF parms = <<>> THEN ovr
    ELSE OverrideEach(update_menu_overrides(ovr, Head(parms), overriden),
                      Tail(parms), overriden)

\* parms.index(parm_name)
IndexOf(parms, parm_name) ==
    CHOOSE i \in 1..Len(parms) :
        parms[i] = parm_name /\ \A j \in 1..(i - 1) : parms[j] # parm_name

\* ShotgunNode.configure_menus; parm_name "" stands for None
configure_menus(ovr, editable, parm_name) ==
    IF ~editable THEN ovr
    ELSE LET chains == (IF parm_name \in SeqToSet(AssetChain) THEN AssetChain ELSE <<>>)
                           \o (IF parm_name \in SeqToSet(ShotChain) THEN ShotChain ELSE <<>>)
             parms == IF parm_name = "" THEN AssetChain \o ShotChain
                      ELSE IF chains = <<>> THEN <<>>
                      ELSE SubSeq(chains, IndexOf(chains, parm_name), Len(chains))
         IN  IF parms = <<>> THEN ovr
             ELSE OverrideEach(ovr, Tail(parms), ovr[parms[1]])

\* at most one menu of the node comes without an override parm
OverrideParms ==
    {[m \in MenuNames |-> "off"]}
        \cup {[m \in MenuNames |-> IF m = a THEN "absent" ELSE "off"] : a \in MenuNames}

\* the names configure_menus is called with: a menu, None, or another parm
ConfigureArgs == MenuNames \cup {"", "mode"}

OverridesInit ==
    /\ MenuStart /\ NodeStart /\ OutStart /\ PubStart /\ SingStart /\ HookStart
    /\ src = NoSources /\ farm = FALSE /\ c_res = Idle
    /\ n_ovr \in OverrideParms

\* the user switches an override toggle
toggle_override_parm ==
    /\ n_op = NoOp
    /\ \E name \in MenuNames :
           /\ n_ovr[name] # "absent"
           /\ n_ovr' = [n_ovr EXCEPT ![name] = IF @ = "on" THEN "off" ELSE "on"]
    /\ UNCHANGED <<src, farm, c_res, nodeVars>>
    /\ UNCHANGED <<menuVars, outVars, pubVars, singVars, hookVars>>

\* the node is locked inside an asset, or unlocked
lock_node ==
    /\ n_op = NoOp
    /\ n_editable' = ~n_editable
    /\ UNCHANGED <<n_parm, n_menu, n_value, n_latest, n_log, n_op, n_edits>>
    /\ UNCHANGED ctxVars
    /\ UNCHANGED <<menuVars, outVars, pubVars, singVars, hookVars>>

call_configure_menus ==
    \E parm_name \in ConfigureArgs :
        /\ n_op = NoOp
        /\ n_ovr' = configure_menus(n_ovr, n_editable, parm_name)
        /\ n_op' = [name |-> "configure_menus", force |-> FALSE, raised |-> FALSE,
                    val |-> PyS(parm_name)]
        /\ UNCHANGED <<n_parm, n_menu, n_value, n_editable, n_latest, n_log, n_edits>>
        /\ UNCHANGED <<src, farm, c_res>>
        /\ UNCHANGED <<menuVars, outVars, pubVars, singVars, hookVars>>

configure_menus_returns ==
    /\ n_op # NoOp
    /\ n_op' = NoOp
    /\ UNCHANGED <<n_parm, n_menu, n_value, n_editable, n_latest, n_log, n_edits>>
    /\ UNCHANGED ctxVars
    /\ UNCHANGED <<menuVars, outVars, pubVars, singVars, hookVars>>

OverridesNext ==
    \/ toggle_override_parm
    \/ lock_node
    \/ call_configure_menus
    \/ configure_menus_returns

SpecOverrides == OverridesInit /\ [][OverridesNext]_vars

\* menu m comes strictly after menu p in a chain both belong to
StrictlyAfter(p, m) ==
    \E chain \in {AssetChain, ShotChain} :
        /\ p \in SeqToSet(chain) /\ m \in SeqToSet(chain)
        /\ Pos(chain, m) > Pos(chain, p)

\* C26: configure_menus(parm_name) on an editable node sets the override flag
\* of every menu strictly after parm_name in its chain to the override state of
\* parm_name and leaves every other override flag unchanged, for every menu
\* name, template and version included; on a non-editable node no override
\* flag changes.  Stated for menus that have an override flag.
C26_ConfigureMenusFrame ==
    [][(n_op = NoOp /\ n_op'.name = "configure_menus"
            /\ n_op'.val.s \in MenuNames /\ n_ovr[n_op'.val.s] # "absent") =>
        LET p == n_op'.val.s
        IN  \A m \in MenuNames :
                n_ovr'[m] = IF n_editable /\ StrictlyAfter(p, m) /\ n_ovr[m] # "absent"
                            THEN n_ovr[p]
                            ELSE n_ovr[m]]_vars

====
